---- MODULE Spec2Model ----
(***************************************************************************)
(* VxLAN tunnel manager (vxlan_manager/core.py): the tunnel store of one   *)
(* VxLANManager, the configuration file it persists to, and the kernel     *)
(* link table it drives through `ip link` commands (utils.run_command).    *)
(* Every command may succeed, be refused (non-zero exit / exec error) or   *)
(* time out; saving the configuration file may fail.                       *)
(***************************************************************************)
EXTENDS Integers, Sequences, FiniteSets, TLC

(* ------------------------------ bounds --------------------------------- *)
\* number of manager operations and host events in one behaviour
MaxOps == 2
MaxNodes == 3
MaxConns == 2

(* ------------------------- program constants --------------------------- *)
MinVni == 4096
DefaultMtu == 1450

\* the VNIs the callers use
VNIs == {MinVni}

\* f"vxlan{tunnel.vni}": the id create_tunnel derives, and the interface name
\* the presentation layers derive, when the caller gives none
DefaultId(vni) == "vxlan" \o ToString(vni)

\* tunnel ids callers pass explicitly; NoId stands for an omitted id (None)
ExplicitIds == {"t1"}
NoId == ""
TunnelIds == ExplicitIds \cup {DefaultId(v) : v \in VNIs}

LocalIPs == {"10.0.0.1"}
RemoteIPs == {"10.0.0.2", "10.0.0.3"}
CustomIf == "vx0"
BridgeNames == {"br-lan"}

\* VxLANTunnel instances that pass __post_init__. The callers of the model
\* name the interface "vxlan<vni>" or CustomIf, and encrypt the tunnels to
\* the second remote address only.
VxLANTunnel ==
    { t \in [vni : VNIs, local_ip : LocalIPs, remote_ip : RemoteIPs,
             interface_name : {DefaultId(v) : v \in VNIs} \cup {CustomIf},
             bridge_name : BridgeNames, mtu : {DefaultMtu},
             encryption : {"none", "psk"}] :
        /\ t.interface_name \in {DefaultId(t.vni), CustomIf}
        /\ (t.encryption = "psk") <=> (t.remote_ip = "10.0.0.3") }

NoTunnel == [vni |-> 0, local_ip |-> "", remote_ip |-> "", interface_name |-> "",
             bridge_name |-> "", mtu |-> 0, encryption |-> "none"]

VARIABLES
    tunnels,    \* self.tunnels: tunnel id -> VxLANTunnel (in memory)
    order,      \* insertion order of self.tunnels (a dict iterates in it)
    persisted,  \* content of the configuration file: tunnel id -> VxLANTunnel
    links,      \* kernel link table: device name -> link state
    last,       \* the last call: operation, arguments, outcome, commands issued
    nops,       \* operations and host events so far
    registry,   \* the orchestrator's self.nodes: node id -> RemoteNode
    remote,     \* the kernel link table of every remote host: node id -> links
    peer,       \* self.tunnels (and its order) of a second VxLANManager on the
                \* same configuration file
    tasks       \* the create_tunnel_on_node coroutines in flight: task -> frame

vars == <<tunnels, order, persisted, links, last, nops, registry, remote, peer, tasks>>

(* ------------------------------ helpers -------------------------------- *)
EmptyMap == [x \in {} |-> x]

Remove(f, k) == [x \in DOMAIN f \ {k} |-> f[x]]

Put(f, k, v) == [x \in DOMAIN f \cup {k} |-> IF x = k THEN v ELSE f[x]]

RemoveFromSeq(s, k) == SelectSeq(s, LAMBDA x : x # k)

\* position of an id in sorted key order (yaml.dump sorts the keys)
RECURSIVE SortedIds(_)
SortedIds(S) ==
    IF S = {} THEN <<>>
    ELSE LET rank == [i \in TunnelIds |->
                         IF i = "t1" THEN 0
                         ELSE (CHOOSE v \in VNIs : DefaultId(v) = i)]
             m == CHOOSE x \in S : \A y \in S : rank[x] <= rank[y]
         IN  <<m>> \o SortedIds(S \ {m})

(* --------------------------- kernel link table ------------------------- *)
NewLink(kind) == [kind |-> kind, up |-> FALSE, master |-> "none", mtu |-> 0]

\* what `ip link ...` does to the link table when the kernel executes it
IpLink(cmd, dev, arg, L) ==
    CASE cmd = "link_add_vxlan" ->
           IF dev \in DOMAIN L THEN [ok |-> FALSE, links |-> L]
           ELSE [ok |-> TRUE, links |-> Put(L, dev, NewLink("vxlan"))]
      [] cmd = "link_add_bridge" ->
           IF dev \in DOMAIN L THEN [ok |-> FALSE, links |-> L]
           ELSE [ok |-> TRUE, links |-> Put(L, dev, NewLink("bridge"))]
      [] cmd = "link_set_up" ->
           IF dev \notin DOMAIN L THEN [ok |-> FALSE, links |-> L]
           ELSE [ok |-> TRUE, links |-> [L EXCEPT ![dev].up = TRUE]]
      [] cmd = "link_show" ->
           [ok |-> dev \in DOMAIN L, links |-> L]
      [] cmd = "link_set_master" ->
           IF dev \in DOMAIN L /\ arg \in DOMAIN L /\ dev # arg /\ L[arg].kind = "bridge"
           THEN [ok |-> TRUE, links |-> [L EXCEPT ![dev].master = arg]]
           ELSE [ok |-> FALSE, links |-> L]
      [] cmd = "link_set_mtu" ->
           IF dev \notin DOMAIN L THEN [ok |-> FALSE, links |-> L]
           ELSE [ok |-> TRUE, links |-> [L EXCEPT ![dev].mtu = arg]]
      [] cmd = "link_set_nomaster" ->
           IF dev \notin DOMAIN L THEN [ok |-> FALSE, links |-> L]
           ELSE [ok |-> TRUE, links |-> [L EXCEPT ![dev].master = "none"]]
      [] cmd = "link_delete" ->
           IF dev \notin DOMAIN L THEN [ok |-> FALSE, links |-> L]
           ELSE [ok |-> TRUE,
                 links |-> [d \in DOMAIN L \ {dev} |->
                              IF L[d].master = dev
                              THEN [L[d] EXCEPT !.master = "none"] ELSE L[d]]]

\* the commands that change the link table (everything but the query)
ChangingCmds == {"link_add_vxlan", "link_add_bridge", "link_set_up",
                 "link_set_master", "link_set_mtu", "link_set_nomaster",
                 "link_delete"}
IpCmds == ChangingCmds \cup {"link_show"}

(* ------------------------------ run_command ---------------------------- *)
\* how the environment answers one command: the kernel executes it, the
\* command exits non-zero (or cannot be executed) without effect, or it
\* exceeds the timeout
Injections == {"ok", "refused", "timeout"}

\* a run of a handler: link table so far, commands issued, pending exception
StartRun(L) == [links |-> L, trace |-> <<>>, exc |-> "none"]

Event(cmd, dev, out) == [cmd |-> cmd, dev |-> dev, out |-> out]

\* utils.run_command: the set of runs that extend r by one command
run_command(r, cmd, dev, arg, check) ==
    { LET k   == IpLink(cmd, dev, arg, r.links)
          out == IF inj = "timeout" THEN "timeout"
                 ELSE IF inj = "refused" \/ ~k.ok THEN "fail" ELSE "ok"
      IN  [links |-> IF out = "ok" THEN k.links ELSE r.links,
           trace |-> Append(r.trace, Event(cmd, dev, out)),
           exc   |-> IF out = "timeout" THEN "TimeoutExpired"
                     ELSE IF out = "fail" /\ check THEN "CalledProcessError"
                     ELSE "none"]
      : inj \in Injections }

\* the next statement of a handler is a run_command: it runs on every run
\* that has not raised
RunAll(S, cmd, dev, arg, check) ==
    UNION { IF r.exc = "none" THEN run_command(r, cmd, dev, arg, check) ELSE {r} : r \in S }

LastOut(r) == r.trace[Len(r.trace)].out

(* --------------------------- VxLANManager ------------------------------ *)
\* save_configuration: the whole mapping T replaces the file content P; when
\* it raises, the file is either untouched (open failed) or left truncated
\* (the dump failed after open(..., 'w'))
save_configuration(T, P) ==
    { [ok |-> TRUE, file |-> T],
      [ok |-> FALSE, file |-> P],
      [ok |-> FALSE, file |-> EmptyMap] }

\* load_configuration: records load in file order, which is sorted key order
load_configuration(P) == [tunnels |-> P, order |-> SortedIds(DOMAIN P)]

\* create_tunnel, lines 91-92
ResolveId(tunnel, tunnel_id) ==
    IF tunnel_id = NoId THEN DefaultId(tunnel.vni) ELSE tunnel_id

\* create_tunnel, line 95
Known(T, id) == id \in DOMAIN T

\* no second manager
NoPeer == [tunnels |-> EmptyMap, order |-> <<>>]

\* a comparison of the whole specification instead of the identity triple
SameIdentityWholeSpec(existing, tunnel) == existing = tunnel

\* a comparison of the VNI alone
SameIdentityVniOnly(existing, tunnel) == existing.vni = tunnel.vni

\* create_tunnel, lines 97-99
SameIdentity(existing, tunnel) ==
    /\ existing.vni = tunnel.vni
    /\ existing.local_ip = tunnel.local_ip
    /\ existing.remote_ip = tunnel.remote_ip

_create_vxlan_interface(S, t) ==
    RunAll(RunAll(S, "link_add_vxlan", t.interface_name, "", TRUE),
           "link_set_up", t.interface_name, "", TRUE)

_setup_bridge(S, t) ==
    LET create(X) ==
            RunAll(RunAll(X, "link_add_bridge", t.bridge_name, "", TRUE),
                   "link_set_up", t.bridge_name, "", TRUE)
        attach(X) == RunAll(X, "link_set_master", t.interface_name, t.bridge_name, TRUE)
    IN  UNION { IF s.exc # "none" THEN {s}
                ELSE IF LastOut(s) = "ok" THEN attach({s})
                ELSE attach(create({s}))
                : s \in RunAll(S, "link_show", t.bridge_name, "", FALSE) }

_configure_mtu(S, t) == RunAll(S, "link_set_mtu", t.interface_name, t.mtu, TRUE)

\* a stub: it only logs
_setup_encryption(S, t) ==
    { IF r.exc # "none" THEN r
      ELSE [r EXCEPT !.trace = Append(@, Event("encryption", t.interface_name, "ok"))]
      : r \in S }

\* the sequence with the MTU set before the bridge is set up
ProvisionMtuFirst(S, t) ==
    LET configured == _setup_bridge(_configure_mtu(_create_vxlan_interface(S, t), t), t)
    IN  IF t.encryption # "none" THEN _setup_encryption(configured, t) ELSE configured

\* the backend sequence shared by create_tunnel (lines 106-117) and
\* recover_state (lines 276-281)
Provision(S, t) ==
    LET configured == _configure_mtu(_setup_bridge(_create_vxlan_interface(S, t), t), t)
    IN  IF t.encryption # "none" THEN _setup_encryption(configured, t) ELSE configured

\* _cleanup_tunnel runs inside the except block: whatever the delete does,
\* the exception that is re-raised is the one that was caught
_cleanup_tunnel(r, t) ==
    { [c EXCEPT !.exc = r.exc] :
        c \in run_command([r EXCEPT !.exc = "none"], "link_delete",
                          t.interface_name, "", FALSE) }

Call(op, id, tunnel, event, exc, ret, trace) ==
    [op |-> op, id |-> id, tunnel |-> tunnel, event |-> event, exc |-> exc,
     ret |-> ret, trace |-> trace]

\* the manager and the host as one value: self.tunnels (with its insertion
\* order), the configuration file and the kernel's link table
Mgr == [tunnels |-> tunnels, order |-> order, persisted |-> persisted, links |-> links]

\* how a call ends: the manager and host it leaves, and what it logged,
\* raised, returned and ran
Outcome(t, o, p, l, event, exc, ret, trace) ==
    [tunnels |-> t, order |-> o, persisted |-> p, links |-> l,
     event |-> event, exc |-> exc, ret |-> ret, trace |-> trace]

\* create_tunnel, lines 95-103: a record exists under the id
create_existing(M, id, tunnel) ==
    IF SameIdentity(M.tunnels[id], tunnel)
    THEN {Outcome(M.tunnels, M.order, M.persisted, M.links,
                  "already_exists", "none", id, <<>>)}
    ELSE {Outcome(M.tunnels, M.order, M.persisted, M.links,
                  "conflict", "ValueError", "", <<>>)}

\* create_tunnel, lines 105-137: provision, store, save; clean up on failure
create_new(M, id, tunnel) ==
    UNION {
      IF r.exc = "none"
      THEN UNION {
             IF sv.ok
             THEN {Outcome(Put(M.tunnels, id, tunnel), Append(M.order, id), sv.file,
                           r.links, "tunnel_create", "none", id,
                           Append(r.trace, Event("save", id, "ok")))}
             ELSE {Outcome(Put(M.tunnels, id, tunnel), Append(M.order, id), sv.file,
                           c.links, "create_failed", c.exc, "", c.trace)
                   : c \in _cleanup_tunnel(
                              [r EXCEPT !.exc = "IOError",
                                        !.trace = Append(@, Event("save", id, "fail"))],
                              tunnel)}
             : sv \in save_configuration(Put(M.tunnels, id, tunnel), M.persisted) }
      ELSE {Outcome(M.tunnels, M.order, M.persisted, c.links,
                    "create_failed", c.exc, "", c.trace)
            : c \in _cleanup_tunnel(r, tunnel)}
      : r \in Provision({StartRun(M.links)}, tunnel) }

\* create_tunnel: the outcomes of one call on manager and host M
create_tunnel(M, tunnel, tunnel_id) ==
    LET id == ResolveId(tunnel, tunnel_id) IN
    IF Known(M.tunnels, id) THEN create_existing(M, id, tunnel)
    ELSE create_new(M, id, tunnel)

\* the call `op(id, arg)` ends as o
Ends(o, op, id, arg) ==
    /\ tunnels' = o.tunnels
    /\ order' = o.order
    /\ persisted' = o.persisted
    /\ links' = o.links
    /\ last' = Call(op, id, arg, o.event, o.exc, o.ret, o.trace)

CreateTunnel ==
    \E tunnel \in VxLANTunnel, tunnel_id \in ExplicitIds \cup {NoId} :
        \E o \in create_tunnel(Mgr, tunnel, tunnel_id) :
            Ends(o, "create", ResolveId(tunnel, tunnel_id), tunnel)

\* an unknown id accepted silently
delete_unknown_silent(tunnel_id) ==
    /\ last' = Call("delete", tunnel_id, NoTunnel, "not_found", "none", "None", <<>>)
    /\ UNCHANGED <<tunnels, order, persisted, links>>

\* delete_tunnel, lines 141-142
delete_unknown(tunnel_id) ==
    /\ last' = Call("delete", tunnel_id, NoTunnel, "not_found", "ValueError", "", <<>>)
    /\ UNCHANGED <<tunnels, order, persisted, links>>

\* delete_tunnel, lines 146-151: detach, then destroy, both with check=False
Unprovision(S, t) ==
    RunAll(RunAll(S, "link_set_nomaster", t.interface_name, "", FALSE),
           "link_delete", t.interface_name, "", FALSE)

\* delete_tunnel, lines 144-165
delete_known(tunnel_id) ==
    LET tunnel == tunnels[tunnel_id] IN
    \E r \in Unprovision({StartRun(links)}, tunnel) :
        /\ links' = r.links
        /\ IF r.exc = "none"
           THEN \E sv \in save_configuration(Remove(tunnels, tunnel_id), persisted) :
                  /\ tunnels' = Remove(tunnels, tunnel_id)
                  /\ order' = RemoveFromSeq(order, tunnel_id)
                  /\ persisted' = sv.file
                  /\ last' = IF sv.ok
                             THEN Call("delete", tunnel_id, tunnel, "tunnel_delete", "none",
                                       "None", Append(r.trace, Event("save", tunnel_id, "ok")))
                             ELSE Call("delete", tunnel_id, tunnel, "delete_failed", "IOError",
                                       "", Append(r.trace, Event("save", tunnel_id, "fail")))
           ELSE /\ last' = Call("delete", tunnel_id, tunnel, "delete_failed", r.exc, "",
                                r.trace)
                /\ UNCHANGED <<tunnels, order, persisted>>

delete_tunnel(tunnel_id) ==
    IF Known(tunnels, tunnel_id) THEN delete_known(tunnel_id) ELSE delete_unknown(tunnel_id)

DeleteTunnel == \E tunnel_id \in TunnelIds : delete_tunnel(tunnel_id)

\* the loop body without its except clause
RecoverOneUncaught(r, tunnel_id, t) ==
    LET visit == [r EXCEPT !.trace = Append(@, Event("visit", tunnel_id, "ok"))]
    IN  UNION { IF s.exc # "none" \/ LastOut(s) = "ok" THEN {s}
                ELSE Provision({[s EXCEPT !.trace =
                                   Append(@, Event("recreating", tunnel_id, "ok"))]}, t)
                : s \in run_command(visit, "link_show", t.interface_name, "", FALSE) }

\* the loop body replaying the creation sequence whatever the query answered
RecoverOneAlways(r, tunnel_id, t) ==
    LET visit == [r EXCEPT !.trace = Append(@, Event("visit", tunnel_id, "ok"))]
        caught(X) ==
            { IF x.exc = "none" THEN x
              ELSE [x EXCEPT !.exc = "none",
                             !.trace = Append(@, Event("recover_failed", tunnel_id, x.exc))]
              : x \in X }
    IN  caught(UNION { IF s.exc # "none" THEN {s}
                       ELSE Provision({[s EXCEPT !.trace =
                                          Append(@, Event("recreating", tunnel_id, "ok"))]}, t)
                       : s \in run_command(visit, "link_show", t.interface_name, "", FALSE) })

\* the body of recover_state's loop for one record (lines 269-284): query the
\* interface, replay the sequence when it is reported absent; the except
\* clause logs the failure and swallows it
RecoverOne(r, tunnel_id, t) ==
    LET visit == [r EXCEPT !.trace = Append(@, Event("visit", tunnel_id, "ok"))]
        caught(X) ==
            { IF x.exc = "none" THEN x
              ELSE [x EXCEPT !.exc = "none",
                             !.trace = Append(@, Event("recover_failed", tunnel_id, x.exc))]
              : x \in X }
    IN  caught(UNION { IF s.exc # "none" \/ LastOut(s) = "ok" THEN {s}
                       ELSE Provision({[s EXCEPT !.trace =
                                          Append(@, Event("recreating", tunnel_id, "ok"))]}, t)
                       : s \in run_command(visit, "link_show", t.interface_name, "", FALSE) })

\* for tunnel_id, tunnel in self.tunnels.items(): an exception that escapes
\* the body ends the loop
RECURSIVE RecoverLoop(_, _, _)
RecoverLoop(S, ids, T) ==
    IF ids = <<>> THEN S
    ELSE RecoverLoop(UNION { IF r.exc = "none"
                             THEN RecoverOne(r, Head(ids), T[Head(ids)]) ELSE {r}
                             : r \in S },
                     Tail(ids), T)

recover_state ==
    \E r \in RecoverLoop({StartRun(links)}, order, tunnels) :
        /\ links' = r.links
        /\ last' = Call("recover", "", NoTunnel, "recover", r.exc,
                        IF r.exc = "none" THEN "None" ELSE "", r.trace)
        /\ UNCHANGED <<tunnels, order, persisted>>

\* the operational state `ip -d link show` prints for a link: DOWN while it
\* is administratively down, UP or UNKNOWN once it has been set up
ShowState(link) == IF link.up THEN {"UP", "UNKNOWN"} ELSE {"DOWN"}

\* a status taken from the record instead of the backend
_get_tunnel_status_cached(r, t) == {[run |-> r, status |-> "up"]}

\* _get_tunnel_status, lines 231-262: one query per call; its answer is
\* parsed into up / down / unknown, a non-zero return code is not_found and
\* any exception is caught and reported as error
_get_tunnel_status(r, t) ==
    UNION { IF s.exc # "none"
            THEN {[run |-> [s EXCEPT !.exc = "none"], status |-> "error"]}
            ELSE IF LastOut(s) = "ok"
            THEN {[run |-> s,
                   status |-> IF st = "UP" THEN "up"
                              ELSE IF st = "DOWN" THEN "down" ELSE "unknown"]
                  : st \in ShowState(s.links[t.interface_name])}
            ELSE {[run |-> s, status |-> "not_found"]}
            : s \in run_command(r, "link_show", t.interface_name, "", FALSE) }

\* list_tunnels, lines 169-177: for tunnel_id, tunnel in self.tunnels.items()
RECURSIVE ListLoop(_, _, _)
ListLoop(S, ids, T) ==
    IF ids = <<>> THEN S
    ELSE ListLoop(UNION { { [run |-> g.run,
                             result |-> Put(o.result, Head(ids),
                                            [tunnel |-> T[Head(ids)],
                                             status |-> g.status])]
                            : g \in _get_tunnel_status(o.run, T[Head(ids)]) }
                          : o \in S },
                  Tail(ids), T)

\* list_tunnels, lines 167-179
list_tunnels ==
    \E o \in ListLoop({[run |-> StartRun(links), result |-> EmptyMap]}, order, tunnels) :
        /\ links' = o.run.links
        /\ last' = Call("list", "", NoTunnel, "list", o.run.exc, o.result, o.run.trace)
        /\ UNCHANGED <<tunnels, order, persisted>>

\* a new VxLANManager (every CLI invocation, every service start) loads the
\* configuration file
Restart ==
    /\ tunnels' = load_configuration(persisted).tunnels
    /\ order' = load_configuration(persisted).order
    /\ last' = Call("restart", "", NoTunnel, "", "none", "", <<>>)
    /\ UNCHANGED <<persisted, links>>

\* the link table of a freshly booted host: empty, or holding the system's
\* LAN bridge
BootLinks == {EmptyMap} \cup
             {[b \in {n} |-> [NewLink("bridge") EXCEPT !.up = TRUE]] : n \in BridgeNames}

\* the host reboots: the kernel objects are gone, the file stays
Reboot ==
    /\ links' \in BootLinks
    /\ tunnels' = load_configuration(persisted).tunnels
    /\ order' = load_configuration(persisted).order
    /\ last' = Call("reboot", "", NoTunnel, "", "none", "", <<>>)
    /\ UNCHANGED persisted

\* what a configuration file written by earlier runs can hold
StoreContents == UNION { [D -> VxLANTunnel] : D \in SUBSET TunnelIds }

\* the state after VxLANManager.__init__ on a freshly booted host
Init ==
    /\ persisted \in StoreContents
    /\ tunnels = load_configuration(persisted).tunnels
    /\ order = load_configuration(persisted).order
    /\ links \in BootLinks
    /\ last = Call("init", "", NoTunnel, "", "none", "", <<>>)
    /\ nops = 0
    /\ registry = EmptyMap
    /\ remote = EmptyMap
    /\ peer = NoPeer
    /\ tasks = EmptyMap

\* a call on the manager: the orchestrator and the remote hosts are not
\* involved
Step(A) == nops < MaxOps /\ nops' = nops + 1 /\ A /\ UNCHANGED <<registry, remote, peer, tasks>>

Next ==
    \/ Step(CreateTunnel)
    \/ Step(DeleteTunnel)
    \/ Step(recover_state)
    \/ Step(list_tunnels)
    \/ Step(Restart)
    \/ Step(Reboot)

Spec == Init /\ [][Next]_vars

(* ============ a manager on a host that nothing else changes ============= *)
\* VxLANManager.__init__ without a configuration file, on a freshly booted
\* host
LifecycleInit ==
    /\ persisted = EmptyMap
    /\ tunnels = load_configuration(persisted).tunnels
    /\ order = load_configuration(persisted).order
    /\ links \in BootLinks
    /\ last = Call("init", "", NoTunnel, "", "none", "", <<>>)
    /\ nops = 0
    /\ registry = EmptyMap
    /\ remote = EmptyMap
    /\ peer = NoPeer
    /\ tasks = EmptyMap

\* create_tunnel and delete_tunnel are the only calls; the host does not
\* reboot and nothing else touches its links or the file
LifecycleNext ==
    \/ Step(CreateTunnel)
    \/ Step(DeleteTunnel)

LifecycleSpec == LifecycleInit /\ [][LifecycleNext]_vars

(* ================ two managers on one configuration file ================ *)
\* The CLI builds a VxLANManager per invocation (cli.py:32) and the API
\* service and the agent hold one for their lifetime (api.py:151,
\* agent.py:32); each loads the file once, in __init__, and every save
\* writes its own self.tunnels over the file. Neither the file nor
\* self.tunnels is locked anywhere. `tunnels`, `order` are the memory of
\* the first manager, `peer` the memory of the second; the file and the
\* host are shared.
PeerMgr ==
    [tunnels |-> peer.tunnels, order |-> peer.order, persisted |-> persisted,
     links |-> links]

\* delete_tunnel, lines 139-165, on manager and host M
delete_tunnel_of(M, tunnel_id) ==
    IF ~Known(M.tunnels, tunnel_id)
    THEN {Outcome(M.tunnels, M.order, M.persisted, M.links,
                  "not_found", "ValueError", "", <<>>)}
    ELSE UNION {
           IF r.exc = "none"
           THEN {Outcome(Remove(M.tunnels, tunnel_id), RemoveFromSeq(M.order, tunnel_id),
                         sv.file, r.links,
                         IF sv.ok THEN "tunnel_delete" ELSE "delete_failed",
                         IF sv.ok THEN "none" ELSE "IOError",
                         IF sv.ok THEN "None" ELSE "",
                         Append(r.trace, Event("save", tunnel_id,
                                               IF sv.ok THEN "ok" ELSE "fail")))
                 : sv \in save_configuration(Remove(M.tunnels, tunnel_id), M.persisted)}
           ELSE {Outcome(M.tunnels, M.order, M.persisted, r.links,
                         "delete_failed", r.exc, "", r.trace)}
           : r \in Unprovision({StartRun(M.links)}, M.tunnels[tunnel_id]) }

\* the host is healthy: no command and no save of the call failed
Healthy(o) == o.event \notin {"create_failed", "delete_failed"}

\* the call `op(id, arg)` of the second manager ends as o
PeerEnds(o, op, id, arg) ==
    /\ peer' = [tunnels |-> o.tunnels, order |-> o.order]
    /\ persisted' = o.persisted
    /\ links' = o.links
    /\ last' = Call(op, id, arg, o.event, o.exc, o.ret, o.trace)
    /\ UNCHANGED <<tunnels, order>>

\* create_tunnel and delete_tunnel called on the first manager
OwnCreate ==
    \E tunnel \in VxLANTunnel, tunnel_id \in ExplicitIds \cup {NoId} :
        \E o \in create_tunnel(Mgr, tunnel, tunnel_id) :
            /\ Healthy(o)
            /\ Ends(o, "create", ResolveId(tunnel, tunnel_id), tunnel)
            /\ UNCHANGED peer

OwnDelete ==
    \E tunnel_id \in TunnelIds :
        \E o \in delete_tunnel_of(Mgr, tunnel_id) :
            /\ Healthy(o)
            /\ Ends(o, "delete", tunnel_id,
                    IF Known(tunnels, tunnel_id) THEN tunnels[tunnel_id] ELSE NoTunnel)
            /\ UNCHANGED peer

\* create_tunnel and delete_tunnel called on the second manager
PeerCreate ==
    \E tunnel \in VxLANTunnel, tunnel_id \in ExplicitIds \cup {NoId} :
        \E o \in create_tunnel(PeerMgr, tunnel, tunnel_id) :
            /\ Healthy(o)
            /\ PeerEnds(o, "create", ResolveId(tunnel, tunnel_id), tunnel)

PeerDelete ==
    \E tunnel_id \in TunnelIds :
        \E o \in delete_tunnel_of(PeerMgr, tunnel_id) :
            /\ Healthy(o)
            /\ PeerEnds(o, "delete", tunnel_id,
                        IF Known(peer.tunnels, tunnel_id) THEN peer.tunnels[tunnel_id]
                        ELSE NoTunnel)

\* both managers have loaded the same file on a freshly booted host
SharedInit ==
    /\ persisted \in StoreContents
    /\ tunnels = load_configuration(persisted).tunnels
    /\ order = load_configuration(persisted).order
    /\ peer = load_configuration(persisted)
    /\ tasks = EmptyMap
    /\ links \in BootLinks
    /\ last = Call("init", "", NoTunnel, "", "none", "", <<>>)
    /\ nops = 0
    /\ registry = EmptyMap
    /\ remote = EmptyMap

\* a call on one of the two managers
SharedStep(A) == nops < MaxOps /\ nops' = nops + 1 /\ A /\ UNCHANGED <<registry, remote, tasks>>

SharedNext ==
    \/ SharedStep(OwnCreate)
    \/ SharedStep(OwnDelete)
    \/ SharedStep(PeerCreate)
    \/ SharedStep(PeerDelete)

SharedStoreSpec == SharedInit /\ [][SharedNext]_vars

(* ============== tunnel construction and topology planning =============== *)
MaxVni == 16777215
MinMtu == 1280
MaxMtu == 9000
DefaultBaseVni == 100

\* address literals callers and node inventories hold, and the fields
\* ipaddress.ip_address finds between the dots of each
IpLiterals == {"10.0.0.1", "10.0.0.2", "10.0.0.3", "10.0.0.256", "10.0.0"}
Octets(ip) ==
    CASE ip = "10.0.0.1" -> <<10, 0, 0, 1>>
      [] ip = "10.0.0.2" -> <<10, 0, 0, 2>>
      [] ip = "10.0.0.3" -> <<10, 0, 0, 3>>
      [] ip = "10.0.0.256" -> <<10, 0, 0, 256>>
      [] ip = "10.0.0" -> <<10, 0, 0>>
      [] OTHER -> <<>>

\* utils.validate_ip: an IPv4 literal has four fields of one byte each
validate_ip(ip) ==
    /\ Len(Octets(ip)) = 4
    /\ \A i \in 1..Len(Octets(ip)) : Octets(ip)[i] \in 0..255

\* utils.validate_vni
validate_vni(vni) == MinVni <= vni /\ vni <= MaxVni

\* utils.validate_mtu
validate_mtu(mtu) == MinMtu <= mtu /\ mtu <= MaxMtu

\* VxLANTunnel.__post_init__: what constructing a tunnel with these fields
\* raises; the MTU is stored as given
post_init(vni, local_ip, remote_ip, mtu) ==
    IF ~validate_vni(vni) THEN "ValueError"
    ELSE IF ~validate_ip(local_ip) THEN "ValueError"
    ELSE IF ~validate_ip(remote_ip) THEN "ValueError"
    ELSE "none"

\* the fields of a tunnel as the dataclass holds them, unset ones at their
\* defaults
Tunnel(vni, local_ip, remote_ip, interface_name, bridge_name, mtu) ==
    [vni |-> vni, local_ip |-> local_ip, remote_ip |-> remote_ip,
     interface_name |-> interface_name, bridge_name |-> bridge_name,
     mtu |-> mtu, encryption |-> "none"]

\* the values a caller may pass around the edges of the valid ranges
VniSamples == {DefaultBaseVni, MinVni - 1, MinVni, MaxVni, MaxVni + 1}
MtuSamples == {MinMtu - 1, MinMtu, DefaultMtu, MaxMtu, MaxMtu + 1}
AddressSamples == {"10.0.0.1", "10.0.0.2", "10.0.0.256", "10.0.0"}

\* VxLANTunnel(vni=..., local_ip=..., remote_ip=..., mtu=...)
ConstructTunnel ==
    \E vni \in VniSamples, mtu \in MtuSamples,
       local_ip \in AddressSamples, remote_ip \in AddressSamples :
        /\ last' = Call("construct", "",
                        Tunnel(vni, local_ip, remote_ip, DefaultId(vni), "br-lan", mtu),
                        "construct", post_init(vni, local_ip, remote_ip, mtu), "", <<>>)
        /\ UNCHANGED <<tunnels, order, persisted, links>>

\* a node of the inventory: its name (the dict key) and its wan_ip; NoIp
\* stands for a node entry without a wan_ip key
Node(name, wan_ip) == [name |-> name, wan_ip |-> wan_ip]
NoIp == ""
NodePool == {Node("A", "10.0.0.1"), Node("B", "10.0.0.2"), Node("C", "10.0.0.3"),
             Node("X", "10.0.0.256"), Node("Y", NoIp)}

\* config['nodes']: a dict, so the names are distinct and the order is the
\* order of insertion
Inventories ==
    { s \in UNION { [1..n -> NodePool] : n \in 0..MaxNodes } :
        \A i, j \in 1..Len(s) : i # j => s[i].name # s[j].name }

\* config['hub']['node']; NoHub stands for a config without a hub
NoHub == ""
HubChoices == {NoHub, "A", "B"}

\* config['connections']: entries {'node1': ..., 'node2': ...}; "Z" is in no
\* inventory
Conn(node1, node2) == [node1 |-> node1, node2 |-> node2]
ConnChoices == {Conn("A", "B"), Conn("B", "C"), Conn("A", "A"), Conn("A", "Z")}
ConnectionLists == UNION { [1..n -> ConnChoices] : n \in 0..MaxConns }

\* config['base_vni']: <<>> stands for a config without the key
BaseVniChoices == {<<>>, <<MinVni>>, <<MaxVni>>}

TopologyTypes == {"hub-spoke", "full-mesh", "partial-mesh"}

\* the configurations of each topology type; a key the type does not read
\* is left out
Configs(topology_type) ==
    [nodes : Inventories,
     hub : IF topology_type = "hub-spoke" THEN HubChoices ELSE {NoHub},
     connections : IF topology_type = "partial-mesh" THEN ConnectionLists ELSE {<<>>},
     base_vni : BaseVniChoices]

\* nodes.keys()
NodeNames(nodes) == [i \in 1..Len(nodes) |-> nodes[i].name]
NameSet(nodes) == { nodes[i].name : i \in 1..Len(nodes) }

\* nodes[name] for a name of the inventory
NodeInfo(nodes, name) ==
    IF name \in NameSet(nodes)
    THEN nodes[CHOOSE i \in 1..Len(nodes) : nodes[i].name = name]
    ELSE Node(name, NoIp)

\* config.get('base_vni', 100)
BaseVni(config) ==
    IF config.base_vni = <<>> THEN DefaultBaseVni ELSE config.base_vni[1]

\* the pairs in both directions
CombinationsBothWays(names) ==
    LET idx == { p \in (1..Len(names)) \X (1..Len(names)) : p[1] # p[2] }
        rank(p) == Cardinality({ q \in idx : q[1] < p[1] \/ (q[1] = p[1] /\ q[2] < p[2]) })
    IN  [k \in 1..Cardinality(idx) |->
           LET p == CHOOSE q \in idx : rank(q) = k - 1
           IN  Conn(names[p[1]], names[p[2]])]

\* itertools.combinations(nodes.keys(), 2): the pairs (i, j), i < j, in
\* lexicographic order of their positions
Combinations(names) ==
    LET idx == { p \in (1..Len(names)) \X (1..Len(names)) : p[1] < p[2] }
        rank(p) == Cardinality({ q \in idx : q[1] < p[1] \/ (q[1] = p[1] /\ q[2] < p[2]) })
    IN  [k \in 1..Cardinality(idx) |->
           LET p == CHOOSE q \in idx : rank(q) = k - 1
           IN  Conn(names[p[1]], names[p[2]])]

\* the hub paired with each other node, the hub on the remote side
HubLegsReversed(nodes, hub_node) ==
    LET spokes == SelectSeq(NodeNames(nodes), LAMBDA n : n # hub_node)
    IN  [k \in 1..Len(spokes) |-> Conn(spokes[k], hub_node)]

\* for spoke_node, spoke_info in nodes.items(): if spoke_node == hub_node:
\* continue: the hub paired with every other node, in inventory order
HubLegs(nodes, hub_node) ==
    LET spokes == SelectSeq(NodeNames(nodes), LAMBDA n : n # hub_node)
    IN  [k \in 1..Len(spokes) |-> Conn(hub_node, spokes[k])]

\* a tunnel id without the VNI
TunnelIdNoVni(topology_type, node1, node2, vni) ==
    IF topology_type = "hub-spoke" THEN "hub-" \o node2
    ELSE IF topology_type = "full-mesh" THEN "mesh-" \o node1 \o "-" \o node2
    ELSE "partial-" \o node1 \o "-" \o node2

\* f"hub-{spoke_node}-{vni_counter}", f"mesh-{node1}-{node2}-{vni_counter}",
\* f"partial-{node1}-{node2}-{vni_counter}"
TunnelId(topology_type, node1, node2, vni) ==
    IF topology_type = "hub-spoke" THEN "hub-" \o node2 \o "-" \o ToString(vni)
    ELSE IF topology_type = "full-mesh"
    THEN "mesh-" \o node1 \o "-" \o node2 \o "-" \o ToString(vni)
    ELSE "partial-" \o node1 \o "-" \o node2 \o "-" \o ToString(vni)

\* d[key] = entry on a dict kept in insertion order
DictPut(d, entry) ==
    IF \E i \in 1..Len(d) : d[i].tunnel_id = entry.tunnel_id
    THEN [i \in 1..Len(d) |-> IF d[i].tunnel_id = entry.tunnel_id THEN entry ELSE d[i]]
    ELSE Append(d, entry)

\* one entry of planned_tunnels; node1 is the hub and node2 the spoke of a
\* hub-spoke tunnel
PlanEntry(topology_type, nodes, leg, vni) ==
    [tunnel_id |-> TunnelId(topology_type, leg.node1, leg.node2, vni),
     type |-> topology_type, node1 |-> leg.node1, node2 |-> leg.node2, vni |-> vni,
     local_ip |-> NodeInfo(nodes, leg.node1).wan_ip,
     remote_ip |-> NodeInfo(nodes, leg.node2).wan_ip,
     interface_name |-> "vxlan" \o ToString(vni), bridge_name |-> "br-lan"]

\* what a planning call gives back: the exception it raised, or the plan
Planned(exc, plan) == [exc |-> exc, plan |-> plan]

\* what the body of a loop raises before it builds the tunnel of a leg: the
\* partial mesh looks both names up in the inventory (lines 298-301), and
\* every type reads the wan_ip of both nodes
LegError(topology_type, nodes, leg) ==
    IF topology_type = "partial-mesh" /\ leg.node1 \notin NameSet(nodes) THEN "ValueError"
    ELSE IF topology_type = "partial-mesh" /\ leg.node2 \notin NameSet(nodes)
    THEN "ValueError"
    ELSE IF NodeInfo(nodes, leg.node1).wan_ip = NoIp THEN "KeyError"
    ELSE IF NodeInfo(nodes, leg.node2).wan_ip = NoIp THEN "KeyError"
    ELSE "none"

\* the loops of _plan_hub_spoke, _plan_full_mesh and _plan_partial_mesh: one
\* entry per leg, vni_counter += 1 after each
RECURSIVE PlanLoop(_, _, _, _, _)
PlanLoop(topology_type, nodes, legs, vni_counter, planned_tunnels) ==
    IF legs = <<>> THEN Planned("none", planned_tunnels)
    ELSE IF LegError(topology_type, nodes, Head(legs)) # "none"
    THEN Planned(LegError(topology_type, nodes, Head(legs)), <<>>)
    ELSE PlanLoop(topology_type, nodes, Tail(legs), vni_counter + 1,
                  DictPut(planned_tunnels,
                          PlanEntry(topology_type, nodes, Head(legs), vni_counter)))

\* a hub check that accepts a hub outside the inventory
HubErrorKnownOnly(config) ==
    IF config.hub = NoHub THEN "ValueError" ELSE "none"

\* lines 215-220 and 47-52: if not hub_config: raise ValueError; if hub_node
\* not in nodes: raise ValueError
HubError(config) ==
    IF config.hub = NoHub THEN "ValueError"
    ELSE IF config.hub \notin NameSet(config.nodes) THEN "ValueError"
    ELSE "none"

\* _plan_hub_spoke, lines 210-247
_plan_hub_spoke(config) ==
    IF HubError(config) # "none" THEN Planned(HubError(config), <<>>)
    ELSE PlanLoop("hub-spoke", config.nodes, HubLegs(config.nodes, config.hub),
                  BaseVni(config), <<>>)

\* _plan_full_mesh, lines 249-278
_plan_full_mesh(config) ==
    PlanLoop("full-mesh", config.nodes, Combinations(NodeNames(config.nodes)),
             BaseVni(config), <<>>)

\* _plan_partial_mesh, lines 280-319
_plan_partial_mesh(config) ==
    IF config.connections = <<>> THEN Planned("ValueError", <<>>)
    ELSE PlanLoop("partial-mesh", config.nodes, config.connections,
                  BaseVni(config), <<>>)

\* plan_topology, lines 31-40
plan_topology(topology_type, config) ==
    IF topology_type = "hub-spoke" THEN _plan_hub_spoke(config)
    ELSE IF topology_type = "full-mesh" THEN _plan_full_mesh(config)
    ELSE IF topology_type = "partial-mesh" THEN _plan_partial_mesh(config)
    ELSE Planned("ValueError", <<>>)

\* a dry run that books the first planned tunnel in the store
PlanTopologyBooking ==
    \E topology_type \in TopologyTypes \cup {"ring"} :
      \E config \in Configs(topology_type) :
        LET p == plan_topology(topology_type, config) IN
        /\ last' = Call("plan", topology_type, config,
                        IF p.exc = "none" THEN "planned" ELSE "plan_failed",
                        p.exc, p.plan, <<>>)
        /\ tunnels' = IF p.plan = <<>> THEN tunnels
                      ELSE Put(tunnels, p.plan[1].tunnel_id,
                               Tunnel(p.plan[1].vni, p.plan[1].local_ip,
                                      p.plan[1].remote_ip, p.plan[1].interface_name,
                                      p.plan[1].bridge_name, DefaultMtu))
        /\ UNCHANGED <<order, persisted, links>>

\* a dry run: the call reads its arguments and nothing else
PlanTopology ==
    \E topology_type \in TopologyTypes \cup {"ring"} :
      \E config \in Configs(topology_type) :
        LET p == plan_topology(topology_type, config) IN
        /\ last' = Call("plan", topology_type, config,
                        IF p.exc = "none" THEN "planned" ELSE "plan_failed",
                        p.exc, p.plan, <<>>)
        /\ UNCHANGED <<tunnels, order, persisted, links>>

\* one line of the error list: what is wrong and with which node, hub or
\* connection (the index i of a connection is written out, as in the message)
Err(kind, subject) == [kind |-> kind, subject |-> subject]

\* lines 332-345: the errors of one node entry
NodeErrors(node) ==
    IF node.wan_ip = NoIp THEN <<Err("missing_wan_ip", node.name)>>
    ELSE IF ~validate_ip(node.wan_ip) THEN <<Err("invalid_wan_ip", node.name)>>
    ELSE <<>>

\* lines 364-383: the errors of connection i (enumerate counts from 0)
ConnectionErrors(nodes, connection, i) ==
    (IF connection.node1 \notin NameSet(nodes)
     THEN <<Err("unknown_node", ToString(i) \o ":" \o connection.node1)>> ELSE <<>>)
    \o (IF connection.node2 \notin NameSet(nodes)
        THEN <<Err("unknown_node", ToString(i) \o ":" \o connection.node2)>> ELSE <<>>)
    \o (IF connection.node1 = connection.node2
        THEN <<Err("self_connection", ToString(i))>> ELSE <<>>)

\* the lists of the entries of a sequence, one after the other
RECURSIVE Flatten(_)
Flatten(lists) == IF lists = <<>> THEN <<>> ELSE Head(lists) \o Flatten(Tail(lists))

\* validate_topology_config, lines 321-390: an empty inventory ends the
\* validation at once (327-329); otherwise the node, hub, connection and
\* base_vni errors are collected in this order
validate_topology_config(topology_type, config) ==
    LET nodes == config.nodes
        node_errors == Flatten([i \in 1..Len(nodes) |-> NodeErrors(nodes[i])])
        hub_errors ==
            IF topology_type # "hub-spoke" THEN <<>>
            ELSE IF config.hub = NoHub THEN <<Err("hub_required", "")>>
            ELSE IF config.hub \notin NameSet(nodes) THEN <<Err("hub_unknown", config.hub)>>
            ELSE <<>>
        connection_errors ==
            IF topology_type # "partial-mesh" THEN <<>>
            ELSE IF config.connections = <<>> THEN <<Err("connections_required", "")>>
            ELSE Flatten([i \in 1..Len(config.connections) |->
                            ConnectionErrors(nodes, config.connections[i], i - 1)])
        vni_errors ==
            IF BaseVni(config) < MinVni \/ BaseVni(config) > MaxVni
            THEN <<Err("invalid_base_vni", ToString(BaseVni(config)))>> ELSE <<>>
        errors == node_errors \o hub_errors \o connection_errors \o vni_errors
    IN  IF nodes = <<>> THEN [ok |-> FALSE, errors |-> <<Err("nodes_required", "")>>]
        ELSE [ok |-> Len(errors) = 0, errors |-> errors]

\* a validation: the call reads its arguments and nothing else
ValidateTopology ==
    \E topology_type \in TopologyTypes \cup {"ring"} :
      \E config \in Configs(topology_type) :
        /\ last' = Call("validate", topology_type, config, "validated", "none",
                        validate_topology_config(topology_type, config), <<>>)
        /\ UNCHANGED <<tunnels, order, persisted, links>>

\* one entry of created_tunnels
CreatedEntry(topology_type, nodes, leg, vni, tunnel_id) ==
    [tunnel_id |-> tunnel_id, type |-> topology_type,
     node1 |-> leg.node1, node2 |-> leg.node2, vni |-> vni,
     local_ip |-> NodeInfo(nodes, leg.node1).wan_ip,
     remote_ip |-> NodeInfo(nodes, leg.node2).wan_ip]

\* the body of the creation loops (lines 62-95, 112-145, 161-204) for one
\* leg, started where x ended: the look-ups, the VxLANTunnel constructor,
\* create_tunnel; every exception is logged and raised again
CreateLeg(topology_type, nodes, leg, vni_counter, x) ==
    LET local_ip == NodeInfo(nodes, leg.node1).wan_ip
        remote_ip == NodeInfo(nodes, leg.node2).wan_ip
        tunnel_id == TunnelId(topology_type, leg.node1, leg.node2, vni_counter)
        tunnel == Tunnel(vni_counter, local_ip, remote_ip,
                         "vxlan" \o ToString(vni_counter), "br-lan", DefaultMtu)
    IN  IF LegError(topology_type, nodes, leg) # "none"
        THEN {[x EXCEPT !.exc = LegError(topology_type, nodes, leg)]}
        ELSE IF post_init(vni_counter, local_ip, remote_ip, DefaultMtu) # "none"
        THEN {[x EXCEPT !.exc = post_init(vni_counter, local_ip, remote_ip, DefaultMtu)]}
        ELSE { Outcome(o.tunnels, o.order, o.persisted, o.links, x.event, o.exc,
                       IF o.exc = "none"
                       THEN DictPut(x.ret, CreatedEntry(topology_type, nodes, leg,
                                                        vni_counter, o.ret))
                       ELSE x.ret,
                       x.trace \o o.trace)
               : o \in create_tunnel(x, tunnel, tunnel_id) }

\* creation loops that, when a leg raises, drop the records of the tunnels
\* created before it
RECURSIVE CreateLoopRollingBack(_, _, _, _, _)
CreateLoopRollingBack(topology_type, nodes, legs, vni_counter, S) ==
    IF legs = <<>> THEN S
    ELSE CreateLoopRollingBack(topology_type, nodes, Tail(legs), vni_counter + 1,
           UNION { IF x.exc # "none" THEN {x}
                   ELSE { IF y.exc = "none" THEN y
                          ELSE LET made == {y.trace[k].dev : k \in
                                              {n \in 1..Len(y.trace) :
                                                 /\ y.trace[n].cmd = "save"
                                                 /\ y.trace[n].out = "ok"}}
                               IN  [y EXCEPT !.tunnels = [id \in DOMAIN y.tunnels \ made
                                                          |-> y.tunnels[id]],
                                             !.order = SelectSeq(y.order,
                                                         LAMBDA id : id \notin made)]
                          : y \in CreateLeg(topology_type, nodes, Head(legs),
                                            vni_counter, x) }
                   : x \in S })

\* the creation loops: the legs in order, vni_counter += 1 after each, the
\* first exception ending the call
RECURSIVE CreateLoop(_, _, _, _, _)
CreateLoop(topology_type, nodes, legs, vni_counter, S) ==
    IF legs = <<>> THEN S
    ELSE CreateLoop(topology_type, nodes, Tail(legs), vni_counter + 1,
                    UNION { IF x.exc # "none" THEN {x}
                            ELSE CreateLeg(topology_type, nodes, Head(legs), vni_counter, x)
                            : x \in S })

\* a call that has raised err before it touched anything
Raised(M, err) ==
    {Outcome(M.tunnels, M.order, M.persisted, M.links, "topology", err, <<>>, <<>>)}

\* the start of a creation loop: created_tunnels = {}
Started(M) ==
    {Outcome(M.tunnels, M.order, M.persisted, M.links, "topology", "none", <<>>, <<>>)}

\* _create_hub_spoke, lines 42-98
_create_hub_spoke(M, config) ==
    IF HubError(config) # "none" THEN Raised(M, HubError(config))
    ELSE CreateLoop("hub-spoke", config.nodes, HubLegs(config.nodes, config.hub),
                    BaseVni(config), Started(M))

\* _create_full_mesh, lines 100-148
_create_full_mesh(M, config) ==
    CreateLoop("full-mesh", config.nodes, Combinations(NodeNames(config.nodes)),
               BaseVni(config), Started(M))

\* _create_partial_mesh, lines 150-208
_create_partial_mesh(M, config) ==
    IF config.connections = <<>> THEN Raised(M, "ValueError")
    ELSE CreateLoop("partial-mesh", config.nodes, config.connections,
                    BaseVni(config), Started(M))

\* create_topology, lines 20-29
create_topology(M, topology_type, config) ==
    IF topology_type = "hub-spoke" THEN _create_hub_spoke(M, config)
    ELSE IF topology_type = "full-mesh" THEN _create_full_mesh(M, config)
    ELSE IF topology_type = "partial-mesh" THEN _create_partial_mesh(M, config)
    ELSE Raised(M, "ValueError")

CreateTopology ==
    \E topology_type \in TopologyTypes \cup {"ring"} :
      \E config \in Configs(topology_type) :
        \E o \in create_topology(Mgr, topology_type, config) :
            Ends(o, "create_topology", topology_type, config)

\* what a topology call may find: a fresh host with an empty store, or a
\* host with its LAN bridge and one tunnel made by hand in the store
TopologyStarts ==
    {[persisted |-> EmptyMap, links |-> EmptyMap],
     [persisted |-> [i \in {"t1"} |-> Tunnel(MinVni, "10.0.0.1", "10.0.0.2", CustomIf,
                                             "br-lan", DefaultMtu)],
      links |-> [b \in {"br-lan"} |-> [NewLink("bridge") EXCEPT !.up = TRUE]]]}

TopologyInit ==
    /\ \E st \in TopologyStarts : persisted = st.persisted /\ links = st.links
    /\ tunnels = load_configuration(persisted).tunnels
    /\ order = load_configuration(persisted).order
    /\ last = Call("init", "", NoTunnel, "", "none", "", <<>>)
    /\ nops = 0
    /\ registry = EmptyMap
    /\ remote = EmptyMap
    /\ peer = NoPeer
    /\ tasks = EmptyMap

\* one call on a freshly started manager
Once(A) == nops = 0 /\ nops' = 1 /\ A /\ UNCHANGED <<registry, remote, peer, tasks>>

TopologyNext ==
    \/ Once(ConstructTunnel)
    \/ Once(PlanTopology)
    \/ Once(ValidateTopology)
    \/ Once(CreateTopology)

TopologySpec == TopologyInit /\ [][TopologyNext]_vars

\* no command of the trace was refused or timed out; the probe for the
\* bridge (link_show) answers "fail" when the bridge does not exist yet
Accepted(tr) ==
    \A i \in 1..Len(tr) :
        IF tr[i].cmd = "link_show" THEN tr[i].out \in {"ok", "fail"} ELSE tr[i].out = "ok"

\* the topologies that are created a second time: hub-spoke and full mesh,
\* VNIs counted from the lowest valid one
RerunTypes == {"hub-spoke", "full-mesh"}
RerunConfigs(topology_type) ==
    { c \in Configs(topology_type) : c.base_vni = <<MinVni>> }

\* create_topology on a freshly started manager
FirstRun ==
    \E topology_type \in RerunTypes :
      \E config \in RerunConfigs(topology_type) :
        \E o \in create_topology(Mgr, topology_type, config) :
            Ends(o, "create_topology", topology_type, config)

\* the same call made again on the same manager, now on a backend that
\* accepts every command
Rerun ==
    /\ last.op = "create_topology"
    /\ \E o \in create_topology(Mgr, last.id, last.tunnel) :
          /\ Accepted(o.trace)
          /\ Ends(o, "rerun_topology", last.id, last.tunnel)

\* the second call of a behaviour
Again(A) == nops = 1 /\ nops' = 2 /\ A /\ UNCHANGED <<registry, remote, peer, tasks>>

RerunNext ==
    \/ Once(FirstRun)
    \/ Again(Rerun)

RerunSpec == TopologyInit /\ [][RerunNext]_vars

(* ============================ orchestrator ============================== *)
\* the hosts of the fleet; "ghost" is a node id no registry holds
NodeIds == {"hub", "s1", "s2"}
Ghost == "ghost"

\* RemoteNode: the field the orchestrator branches on
RemoteNode(connection_type) == [connection_type |-> connection_type]

\* the registries nodes.yaml may hold
Registries ==
    {[n \in {"hub", "s1", "s2"} |-> RemoteNode(IF n = "s2" THEN "http" ELSE "ssh")],
     [n \in {"hub", "s1"} |-> RemoteNode("ssh")]}

\* the link tables of the remote hosts before a call: the hub has its LAN
\* bridge, the other hosts are fresh
RemoteStarts ==
    {[n \in NodeIds |-> IF n = "hub"
                        THEN [b \in {"br-lan"} |-> [NewLink("bridge") EXCEPT !.up = TRUE]]
                        ELSE EmptyMap]}

\* a run of an orchestrator call: the remote hosts so far, the result list
\* of the current node call, every remote call made, the pending exception
OrchRun(R, results, calls, exc) ==
    [remote |-> R, results |-> results, calls |-> calls, exc |-> exc]

\* one remote call: on which node, what, and how it ended
RemoteCall(node_id, cmd, dev, out) ==
    [node |-> node_id, cmd |-> cmd, dev |-> dev, out |-> out]

\* the dict execute_command_ssh returns
SshResult(cmd, dev, success, exit_code) ==
    [cmd |-> cmd, dev |-> dev, success |-> success, exit_code |-> exit_code]

\* what the remote shell does with a command line: `ip link add <bridge>
\* type bridge || true` (line 117) exits 0 whatever `ip` did
RemoteShell(cmd, dev, arg, L, refused) ==
    IF cmd = "link_add_bridge_or_true"
    THEN [ok |-> TRUE,
          links |-> IF refused THEN L ELSE IpLink("link_add_bridge", dev, arg, L).links]
    ELSE IF cmd = "link_show_vxlan" THEN [ok |-> ~refused, links |-> L]
    ELSE IF refused THEN [ok |-> FALSE, links |-> L]
    ELSE IpLink(cmd, dev, arg, L)

\* an execute_command_ssh that lets the connection error escape
execute_command_ssh_raising(r, node_id, cmd, dev, arg) ==
    { IF inj = "timeout"
      THEN OrchRun(r.remote, r.results,
                   Append(r.calls, RemoteCall(node_id, cmd, dev, "error")),
                   "ConnectionError")
      ELSE LET k == RemoteShell(cmd, dev, arg, r.remote[node_id], inj = "refused")
           IN  OrchRun([r.remote EXCEPT ![node_id] = k.links],
                       Append(r.results,
                              SshResult(cmd, dev, k.ok, IF k.ok THEN 0 ELSE 1)),
                       Append(r.calls, RemoteCall(node_id, cmd, dev,
                                                  IF k.ok THEN "ok" ELSE "fail")),
                       r.exc)
      : inj \in Injections }

\* execute_command_ssh, lines 53-77: the command runs on the node and its
\* exit status decides success; any exception (no connection, a timeout) is
\* caught and reported as an unsuccessful result with exit_code -1
execute_command_ssh(r, node_id, cmd, dev, arg) ==
    { IF inj = "timeout"
      THEN OrchRun(r.remote,
                   Append(r.results, SshResult(cmd, dev, FALSE, -1)),
                   Append(r.calls, RemoteCall(node_id, cmd, dev, "error")),
                   r.exc)
      ELSE LET k == RemoteShell(cmd, dev, arg, r.remote[node_id], inj = "refused")
           IN  OrchRun([r.remote EXCEPT ![node_id] = k.links],
                       Append(r.results,
                              SshResult(cmd, dev, k.ok, IF k.ok THEN 0 ELSE 1)),
                       Append(r.calls, RemoteCall(node_id, cmd, dev,
                                                  IF k.ok THEN "ok" ELSE "fail")),
                       r.exc)
      : inj \in Injections }

\* the dict execute_command_http returns
HttpResult(endpoint, success, status_code) ==
    [cmd |-> endpoint, dev |-> "", success |-> success, status_code |-> status_code]

\* what the agent on the node does with POST /api/v1/tunnels (agent.py:46-64):
\* its manager's create_tunnel on the node's link table; the agent's own
\* store is not followed
AgentCreate(L, tunnel) ==
    { [links |-> o.links, ok |-> o.exc = "none"]
      : o \in create_new([tunnels |-> EmptyMap, order |-> <<>>, persisted |-> EmptyMap,
                          links |-> L],
                         DefaultId(tunnel.vni), tunnel) }

\* execute_command_http, lines 79-101, on the three endpoints the
\* orchestrator posts to. The agent serves POST /api/v1/tunnels only; the
\* delete and status routes (agent.py:66, 84) take DELETE and GET, so a
\* POST to them is answered 405. Any exception is caught and reported with
\* status_code -1.
execute_command_http(r, node_id, endpoint, tunnel) ==
    {OrchRun(r.remote, Append(r.results, HttpResult(endpoint, FALSE, -1)),
             Append(r.calls, RemoteCall(node_id, endpoint, "", "error")), r.exc)}
    \cup
    (IF endpoint = "post_tunnels"
     THEN { OrchRun([r.remote EXCEPT ![node_id] = a.links],
                    Append(r.results,
                           HttpResult(endpoint, a.ok, IF a.ok THEN 200 ELSE 500)),
                    Append(r.calls, RemoteCall(node_id, endpoint, "",
                                               IF a.ok THEN "ok" ELSE "fail")),
                    r.exc)
            : a \in AgentCreate(r.remote[node_id], tunnel) }
     ELSE {OrchRun(r.remote, Append(r.results, HttpResult(endpoint, FALSE, 405)),
                   Append(r.calls, RemoteCall(node_id, endpoint, "", "fail")), r.exc)})

\* one command line of a node call
Cmd(cmd, dev, arg) == [cmd |-> cmd, dev |-> dev, arg |-> arg]

\* the list `commands` of create_tunnel_on_node, lines 112-121
CreateCommands(t) ==
    <<Cmd("link_add_vxlan", t.interface_name, ""),
      Cmd("link_set_up", t.interface_name, ""),
      Cmd("link_add_bridge_or_true", t.bridge_name, ""),
      Cmd("link_set_up", t.bridge_name, ""),
      Cmd("link_set_master", t.interface_name, t.bridge_name),
      Cmd("link_set_mtu", t.interface_name, t.mtu)>>

\* the list `commands` of delete_tunnel_on_node, lines 157-160
DeleteCommands(interface_name) ==
    <<Cmd("link_set_nomaster", interface_name, ""),
      Cmd("link_delete", interface_name, "")>>

\* a command loop that runs every command whatever the one before did
RECURSIVE SshLoopNoBreak(_, _, _, _)
SshLoopNoBreak(S, node_id, commands, fail_fast) ==
    IF commands = <<>> THEN S
    ELSE SshLoopNoBreak(
           UNION { IF r.exc # "none" THEN {r}
                   ELSE execute_command_ssh(r, node_id, Head(commands).cmd,
                                            Head(commands).dev, Head(commands).arg)
                   : r \in S },
           node_id, Tail(commands), fail_fast)

\* for cmd in commands: result = await self.execute_command_ssh(node, cmd);
\* results.append(result); create breaks at the first unsuccessful result
\* (lines 124-129), delete does not (163-165)
RECURSIVE SshLoop(_, _, _, _)
SshLoop(S, node_id, commands, fail_fast) ==
    IF commands = <<>> THEN S
    ELSE SshLoop(
           UNION { IF r.exc # "none" THEN {r}
                   ELSE IF /\ fail_fast /\ r.results # <<>>
                           /\ ~r.results[Len(r.results)].success
                   THEN {r}
                   ELSE execute_command_ssh(r, node_id, Head(commands).cmd,
                                            Head(commands).dev, Head(commands).arg)
                   : r \in S },
           node_id, Tail(commands), fail_fast)

\* a node call that takes an unregistered node for an ssh node
node_call_unchecked(r, N, node_id, kind, tunnel) ==
    LET start == [r EXCEPT !.results = <<>>] IN
    IF node_id \notin DOMAIN N \/ N[node_id].connection_type = "ssh"
    THEN SshLoop({[start EXCEPT !.remote =
                      [n \in DOMAIN r.remote \cup {node_id} |->
                         IF n \in DOMAIN r.remote THEN r.remote[n] ELSE EmptyMap]]},
                 node_id,
                 IF kind = "create" THEN CreateCommands(tunnel)
                 ELSE IF kind = "delete" THEN DeleteCommands(tunnel.interface_name)
                 ELSE <<Cmd("link_show_vxlan", "", "")>>,
                 kind = "create")
    ELSE execute_command_http(start, node_id,
                              IF kind = "create" THEN "post_tunnels"
                              ELSE IF kind = "delete" THEN "post_tunnels_id"
                              ELSE "post_status", tunnel)

\* create_tunnel_on_node (103-147), delete_tunnel_on_node (149-172) and
\* get_node_status (174-187): an unregistered node id raises ValueError
\* before anything else; an ssh node gets the command list, an http node
\* one POST
node_call(r, N, node_id, kind, tunnel) ==
    LET start == [r EXCEPT !.results = <<>>] IN
    IF node_id \notin DOMAIN N THEN {[start EXCEPT !.exc = "ValueError"]}
    ELSE IF N[node_id].connection_type = "ssh"
    THEN SshLoop({start}, node_id,
                 IF kind = "create" THEN CreateCommands(tunnel)
                 ELSE IF kind = "delete" THEN DeleteCommands(tunnel.interface_name)
                 ELSE <<Cmd("link_show_vxlan", "", "")>>,
                 kind = "create")
    ELSE execute_command_http(start, node_id,
                              IF kind = "create" THEN "post_tunnels"
                              ELSE IF kind = "delete" THEN "post_tunnels_id"
                              ELSE "post_status", tunnel)

\* the tunnels the callers of the orchestrator hand to a node call
FleetTunnels ==
    {Tunnel(MinVni, "10.0.0.1", "10.0.0.2", DefaultId(MinVni), "br-lan", DefaultMtu)}

\* the call `op(node_id, arg)` of the orchestrator ends as run r
OrchEnds(r, op, node_id, arg) ==
    /\ remote' = r.remote
    /\ last' = Call(op, node_id, arg, op, r.exc,
                    IF r.exc = "none" THEN [node_id |-> node_id, results |-> r.results]
                    ELSE <<>>,
                    r.calls)
    /\ UNCHANGED <<registry, tunnels, order, persisted, links>>

CreateTunnelOnNode ==
    \E node_id \in NodeIds \cup {Ghost}, tunnel \in FleetTunnels :
      \E r \in node_call(OrchRun(remote, <<>>, <<>>, "none"), registry, node_id,
                         "create", tunnel) :
        OrchEnds(r, "create_tunnel_on_node", node_id, tunnel)

DeleteTunnelOnNode ==
    \E node_id \in NodeIds \cup {Ghost}, tunnel \in FleetTunnels :
      \E r \in node_call(OrchRun(remote, <<>>, <<>>, "none"), registry, node_id,
                         "delete", tunnel) :
        OrchEnds(r, "delete_tunnel_on_node", node_id, tunnel)

GetNodeStatus ==
    \E node_id \in NodeIds \cup {Ghost} :
      \E r \in node_call(OrchRun(remote, <<>>, <<>>, "none"), registry, node_id,
                         "status", NoTunnel) :
        OrchEnds(r, "get_node_status", node_id, NoTunnel)

\* one entry of node_configs: the node id (the dict key), its role, and the
\* vni and ip of its tunnel
NodeConfig(node_id, role, vni, ip) ==
    [node_id |-> node_id, role |-> role, vni |-> vni, ip |-> ip]

\* the node_configs the callers deploy: a hub and two spokes; no hub; a
\* spoke that is in no registry ahead of a registered one; a spoke whose
\* VNI is out of range ahead of a valid one; a hub alone
DeployConfigs ==
    {<<NodeConfig("hub", "hub", MinVni, "10.0.0.1"),
       NodeConfig("s1", "spoke", MinVni, "10.0.0.2"),
       NodeConfig("s2", "spoke", MinVni + 1, "10.0.0.3")>>,
     <<NodeConfig("s1", "spoke", MinVni, "10.0.0.2"),
       NodeConfig("s2", "spoke", MinVni + 1, "10.0.0.3")>>,
     <<NodeConfig("hub", "hub", MinVni, "10.0.0.1"),
       NodeConfig(Ghost, "spoke", MinVni, "10.0.0.2"),
       NodeConfig("s1", "spoke", MinVni + 1, "10.0.0.3")>>,
     <<NodeConfig("hub", "hub", MinVni, "10.0.0.1"),
       NodeConfig("s1", "spoke", DefaultBaseVni, "10.0.0.2"),
       NodeConfig("s2", "spoke", MinVni + 1, "10.0.0.3")>>,
     <<NodeConfig("hub", "hub", MinVni, "10.0.0.1")>>}

\* a hub search that falls back on the first node
HubOfOrFirst(node_configs) ==
    LET hubs == SelectSeq(node_configs, LAMBDA c : c.role = "hub")
    IN  IF hubs = <<>> THEN <<node_configs[1]>> ELSE <<hubs[Len(hubs)]>>

\* lines 195-202: the last entry with role 'hub' is the hub (None, here
\* <<>>, when there is none); every entry with another role is a spoke
HubOf(node_configs) ==
    LET hubs == SelectSeq(node_configs, LAMBDA c : c.role = "hub")
    IN  IF hubs = <<>> THEN <<>> ELSE <<hubs[Len(hubs)]>>
SpokesOf(node_configs) == SelectSeq(node_configs, LAMBDA c : c.role # "hub")

\* a run of deploy_topology: the orchestrator run and the dict `results`
Deploying(run, pairs) == [run |-> run, pairs |-> pairs]

\* one entry of `results`, keyed f"{hub_node}-{spoke_node}" (lines 236-239)
PairEntry(hub_node, spoke_node, hub_result, spoke_result) ==
    [key |-> hub_node \o "-" \o spoke_node, hub_node |-> hub_node,
     spoke_node |-> spoke_node, hub |-> hub_result, spoke |-> spoke_result]

\* the body of the loop over spoke_nodes (lines 208-239) for one spoke: the
\* two VxLANTunnel constructors, the node call on the hub, the node call on
\* the spoke, the pair's entry; an exception of any of them leaves the loop
DeployPair(d, N, hub, spoke) ==
    LET hub_tunnel == Tunnel(spoke.vni, hub.ip, spoke.ip,
                             "vxlan" \o ToString(spoke.vni), "br-lan", DefaultMtu)
        spoke_tunnel == Tunnel(spoke.vni, spoke.ip, hub.ip,
                               "vxlan" \o ToString(spoke.vni), "br-lan", DefaultMtu)
    IN  IF post_init(spoke.vni, hub.ip, spoke.ip, DefaultMtu) # "none"
        THEN {Deploying([d.run EXCEPT !.exc = "ValueError"], d.pairs)}
        ELSE UNION {
               IF h.exc # "none" THEN {Deploying(h, d.pairs)}
               ELSE { Deploying(sp,
                                IF sp.exc # "none" THEN d.pairs
                                ELSE Append(d.pairs,
                                            PairEntry(hub.node_id, spoke.node_id,
                                                      h.results, sp.results)))
                      : sp \in node_call(h, N, spoke.node_id, "create", spoke_tunnel) }
               : h \in node_call(d.run, N, hub.node_id, "create", hub_tunnel) }

\* for spoke_node in spoke_nodes
RECURSIVE DeployLoop(_, _, _, _)
DeployLoop(D, N, hub, spokes) ==
    IF spokes = <<>> THEN D
    ELSE DeployLoop(UNION { IF d.run.exc # "none" THEN {d}
                            ELSE DeployPair(d, N, hub, Head(spokes)) : d \in D },
                    N, hub, Tail(spokes))

\* deploy_topology, lines 189-241: only 'hub-spoke' does anything
deploy_topology(r, N, topology_type, node_configs) ==
    IF topology_type # "hub-spoke" THEN {Deploying(r, <<>>)}
    ELSE IF HubOf(node_configs) = <<>>
    THEN {Deploying([r EXCEPT !.exc = "ValueError"], <<>>)}
    ELSE DeployLoop({Deploying(r, <<>>)}, N, HubOf(node_configs)[1],
                    SpokesOf(node_configs))

DeployTopology ==
    \E topology_type \in {"hub-spoke", "full-mesh"}, node_configs \in DeployConfigs :
      \E d \in deploy_topology(OrchRun(remote, <<>>, <<>>, "none"), registry,
                                topology_type, node_configs) :
        /\ remote' = d.run.remote
        /\ last' = Call("deploy_topology", topology_type, node_configs, "deploy",
                        d.run.exc, IF d.run.exc = "none" THEN d.pairs ELSE <<>>,
                        d.run.calls)
        /\ UNCHANGED <<registry, tunnels, order, persisted, links>>

\* VxLANOrchestrator.__init__ on a registry file, the manager of the local
\* host left aside
OrchestratorInit ==
    /\ registry \in Registries
    /\ remote \in RemoteStarts
    /\ persisted = EmptyMap /\ tunnels = EmptyMap /\ order = <<>> /\ links = EmptyMap
    /\ peer = NoPeer
    /\ tasks = EmptyMap
    /\ last = Call("init", "", NoTunnel, "", "none", "", <<>>)
    /\ nops = 0

\* calls of the orchestrator, up to MaxOps of them
OrchStep(A) == nops < MaxOps /\ nops' = nops + 1 /\ A /\ UNCHANGED <<peer, tasks>>

\* a deployment is made on the fleet as the registry file and the hosts'
\* boot left it, and is the only call of its behaviour
OrchOnce(A) == nops = 0 /\ nops' = MaxOps /\ A /\ UNCHANGED <<peer, tasks>>

OrchestratorNext ==
    \/ OrchStep(CreateTunnelOnNode)
    \/ OrchStep(DeleteTunnelOnNode)
    \/ OrchStep(GetNodeStatus)
    \/ OrchOnce(DeployTopology)

OrchestratorSpec == OrchestratorInit /\ [][OrchestratorNext]_vars

(* ============ create_tunnel_on_node coroutines in flight ================ *)
\* the coroutines the event loop holds at one time, named in the order
\* they are started
TaskIds == {"a", "b"}

\* the tunnels of concurrent calls: FleetTunnels and a second tunnel on the
\* same bridge
ConcurrentTunnels ==
    FleetTunnels \cup
    {Tunnel(MinVni + 1, "10.0.0.1", "10.0.0.3", DefaultId(MinVni + 1), "br-lan",
            DefaultMtu)}

\* the frame of one create_tunnel_on_node coroutine on an ssh node: its
\* arguments, its local list `results`, and whether it has returned; the
\* loop variable is the length of `results`
Frame(node_id, tunnel, results, done) ==
    [node_id |-> node_id, tunnel |-> tunnel, results |-> results, done |-> done]

\* a remote call in the order the nodes received them, with the coroutine
\* that made it
Sent(task, call) ==
    [task |-> task, node |-> call.node, cmd |-> call.cmd, dev |-> call.dev,
     out |-> call.out]

\* a caller starts create_tunnel_on_node(node_id, tunnel) for a (node,
\* tunnel) pair no coroutine in flight has; the coroutine is suspended
\* before its first command (lines 105-122)
StartTask ==
    \E k \in TaskIds \ DOMAIN tasks, node_id \in DOMAIN registry,
       tunnel \in ConcurrentTunnels :
        /\ registry[node_id].connection_type = "ssh"
        /\ k = "b" => "a" \in DOMAIN tasks
        /\ \A j \in DOMAIN tasks :
              <<tasks[j].node_id, tasks[j].tunnel>> # <<node_id, tunnel>>
        /\ tasks' = [j \in DOMAIN tasks \cup {k} |->
                       IF j = k THEN Frame(node_id, tunnel, <<>>, FALSE) ELSE tasks[j]]
        /\ UNCHANGED <<tunnels, order, persisted, links, last, nops, registry,
                       remote, peer>>

\* a loop position shared by the coroutines in flight
NextCommandShared(t) ==
    LET commands == CreateCommands(t.tunnel)
        position == Len(last.trace) + 1
    IN  commands[IF position > Len(commands) THEN Len(commands) ELSE position]

\* the command a suspended coroutine awaits next: `for cmd in commands`
\* (line 124) goes through the coroutine's own list by its own position
NextCommand(t) == CreateCommands(t.tunnel)[Len(t.results) + 1]

\* the event loop resumes coroutine k for one turn of its loop (lines
\* 124-129): the command reaches the node, the result is appended, and the
\* coroutine returns after an unsuccessful result or after the last command
ResumeTask ==
    \E k \in DOMAIN tasks :
        /\ ~tasks[k].done
        /\ LET t == tasks[k]
               c == NextCommand(t)
           IN  \E r \in execute_command_ssh(OrchRun(remote, t.results, <<>>, "none"),
                                            t.node_id, c.cmd, c.dev, c.arg) :
                 /\ remote' = r.remote
                 /\ tasks' = [tasks EXCEPT ![k] =
                                Frame(t.node_id, t.tunnel, r.results,
                                      \/ ~r.results[Len(r.results)].success
                                      \/ Len(r.results) = Len(CreateCommands(t.tunnel)))]
                 /\ last' = [last EXCEPT !.op = "resume", !.id = k,
                                         !.trace = Append(last.trace,
                                                          Sent(k, r.calls[1]))]
        /\ UNCHANGED <<tunnels, order, persisted, links, nops, registry, peer>>

\* an orchestrator whose registry holds ssh nodes only, no call made yet
ConcurrentInit ==
    /\ OrchestratorInit
    /\ \A n \in DOMAIN registry : registry[n].connection_type = "ssh"

ConcurrentNext ==
    \/ StartTask
    \/ ResumeTask

ConcurrentSpec == ConcurrentInit /\ [][ConcurrentNext]_vars

(* ================= an http node and the agent's own store =============== *)
\* interface_name.replace('vxlan', ''), orchestrator.py:170: what
\* delete_tunnel_on_node puts in the path for an http node
ReplaceVxlan(interface_name) ==
    IF \E v \in VNIs : interface_name = DefaultId(v)
    THEN ToString(CHOOSE v \in VNIs : interface_name = DefaultId(v))
    ELSE interface_name

\* the body of a response of the agent as execute_command_http reports it
AgentResult(status_code, tunnel_id) ==
    [success |-> status_code = 200, status_code |-> status_code,
     tunnel_id |-> tunnel_id]

\* the routes of the agent's application, agent.py:42-95, on the agent's
\* manager M: POST /api/v1/tunnels creates under the id the manager derives,
\* DELETE /api/v1/tunnels/{tunnel_id} deletes; any exception of the manager
\* is answered 500, and a method a path does not serve 405
agent_app(M, method, path, tunnel_id, tunnel) ==
    IF method = "POST" /\ path = "/api/v1/tunnels"
    THEN {[o EXCEPT !.ret = AgentResult(IF o.exc = "none" THEN 200 ELSE 500, o.ret)]
          : o \in create_tunnel(M, tunnel, NoId)}
    ELSE IF method = "DELETE" /\ path = "/api/v1/tunnels/{tunnel_id}"
    THEN {[o EXCEPT !.ret = AgentResult(IF o.exc = "none" THEN 200 ELSE 500, "")]
          : o \in delete_tunnel_of(M, tunnel_id)}
    ELSE {Outcome(M.tunnels, M.order, M.persisted, M.links, "method_not_allowed",
                  "none", AgentResult(405, ""), <<>>)}

\* execute_command_http, orchestrator.py:79-101, against the agent and its
\* store: always a POST; an exception of the transport is caught and
\* reported with status_code -1
http_post(M, path, tunnel_id, tunnel) ==
    {Outcome(M.tunnels, M.order, M.persisted, M.links, "transport_error",
             "none", AgentResult(-1, ""), <<>>)}
    \cup agent_app(M, "POST", path, tunnel_id, tunnel)

\* create_tunnel_on_node on an http node, orchestrator.py:133-147
CreateOnAgent ==
    \E tunnel \in VxLANTunnel :
        \E o \in http_post(Mgr, "/api/v1/tunnels", NoId, tunnel) :
            Ends(o, "create_on_agent", tunnel.interface_name, tunnel)

\* delete_tunnel_on_node on an http node, orchestrator.py:168-172
DeleteOnAgent ==
    \E tunnel \in VxLANTunnel :
        \E o \in http_post(Mgr, "/api/v1/tunnels/{tunnel_id}",
                           ReplaceVxlan(tunnel.interface_name), tunnel) :
            Ends(o, "delete_on_agent", tunnel.interface_name, tunnel)

\* a client of the agent that sends DELETE /api/v1/tunnels/{tunnel_id}
DeleteRouteOfAgent ==
    \E tunnel_id \in TunnelIds :
        \E o \in agent_app(Mgr, "DELETE", "/api/v1/tunnels/{tunnel_id}", tunnel_id,
                           NoTunnel) :
            Ends(o, "agent_delete_route", tunnel_id, NoTunnel)

\* the variables of the manager are those of the manager the agent holds
\* (agent.py:32), the link table that of the agent's host
AgentNext ==
    \/ Step(CreateOnAgent)
    \/ Step(DeleteOnAgent)
    \/ Step(DeleteRouteOfAgent)

AgentSpec == LifecycleInit /\ [][AgentNext]_vars

(* ================================ REST API ============================== *)
\* the fields of the dataclass VxLANTunnel, core.py:20-31
DataclassFields ==
    {"vni", "local_ip", "remote_ip", "interface_name", "bridge_name",
     "physical_interface", "mtu", "port", "label", "encryption", "psk_key"}

\* the keyword arguments the route passes to VxLANTunnel(...), api.py:327-343
CreateKeywords ==
    {"vni", "local_ip", "remote_ip", "interface_name", "bridge_name",
     "physical_interface", "mtu", "port", "label", "encryption", "psk_key",
     "bridge_ip", "bridge_netmask", "tunnel_ip", "tunnel_netmask"}

\* a request body; NoId stands for an omitted interface_name, the other
\* optional fields are left out of the body
TunnelCreateRequest(vni, local_ip, remote_ip, interface_name, mtu, encryption) ==
    [vni |-> vni, local_ip |-> local_ip, remote_ip |-> remote_ip,
     interface_name |-> interface_name, bridge_name |-> "br-lan", mtu |-> mtu,
     encryption |-> encryption]

\* the request bodies the clients of the model send
Requests ==
    { TunnelCreateRequest(vni, "10.0.0.1", remote_ip, interface_name, mtu, encryption) :
        vni \in {MinVni - 1, MinVni}, remote_ip \in {"10.0.0.2", "10.0.0.256"},
        interface_name \in {NoId, CustomIf}, mtu \in {DefaultMtu, MaxMtu + 1},
        encryption \in {"none", "aes"} }

\* the field constraints and the validator of TunnelCreateRequest,
\* api.py:17-40
RequestValid(q) ==
    /\ MinVni <= q.vni /\ q.vni <= MaxVni
    /\ MinMtu <= q.mtu /\ q.mtu <= MaxMtu
    /\ q.encryption \in {"none", "psk", "ikev2"}

\* the HTTP response: status code and the tunnel id of its data
Response(status, tunnel_id) == [status |-> status, tunnel_id |-> tunnel_id]

\* the dataclass constructor called with these keywords: an unexpected
\* keyword is a TypeError, then __post_init__ runs
construct(keywords, q) ==
    IF ~(keywords \subseteq DataclassFields) THEN "TypeError"
    ELSE post_init(q.vni, q.local_ip, q.remote_ip, q.mtu)

\* the except clauses of the routes: a ValueError is answered with
\* not_valid (400 for create, 404 for delete), any other exception with 500
StatusOf(exc, not_valid) ==
    IF exc = "none" THEN 200 ELSE IF exc = "ValueError" THEN not_valid ELSE 500

\* POST /api/v1/tunnels, api.py:310-363: a body that fails the request model
\* is answered 422 by the framework; the route builds the tunnel and hands
\* it to create_tunnel without an id
post_tunnels(M, q) ==
    LET interface_name == IF q.interface_name = NoId THEN DefaultId(q.vni)
                          ELSE q.interface_name
        tunnel == [vni |-> q.vni, local_ip |-> q.local_ip, remote_ip |-> q.remote_ip,
                   interface_name |-> interface_name, bridge_name |-> q.bridge_name,
                   mtu |-> q.mtu, encryption |-> q.encryption]
        raised == construct(CreateKeywords, q)
    IN  IF ~RequestValid(q)
        THEN {Outcome(M.tunnels, M.order, M.persisted, M.links, "rejected",
                      "ValidationError", Response(422, ""), <<>>)}
        ELSE IF raised # "none"
        THEN {Outcome(M.tunnels, M.order, M.persisted, M.links, "create_failed",
                      raised, Response(StatusOf(raised, 400), ""), <<>>)}
        ELSE {[o EXCEPT !.ret = Response(StatusOf(o.exc, 400), o.ret)]
              : o \in create_tunnel(M, tunnel, NoId)}

PostTunnels ==
    \E q \in Requests :
        \E o \in post_tunnels(Mgr, q) : Ends(o, "post_tunnels", NoId, q)

\* DELETE /api/v1/tunnels/{tunnel_id}, api.py:365-384
DeleteTunnelRoute ==
    \E tunnel_id \in TunnelIds :
        \E o \in delete_tunnel_of(Mgr, tunnel_id) :
            Ends([o EXCEPT !.ret = Response(StatusOf(o.exc, 404), tunnel_id)],
                 "delete_route", tunnel_id, NoTunnel)

\* the manager and host an outcome leaves
After(o) ==
    [tunnels |-> o.tunnels, order |-> o.order, persisted |-> o.persisted,
     links |-> o.links]

\* PUT /api/v1/tunnels/{tunnel_id}, api.py:720-765: delete_tunnel, then the
\* constructor with the keywords of the create route, then create_tunnel
\* under the same id; a ValueError of any of them is answered 404, another
\* exception 500
put_tunnel(M, tunnel_id, q) ==
    LET interface_name == IF q.interface_name = NoId THEN DefaultId(q.vni)
                          ELSE q.interface_name
        tunnel == [vni |-> q.vni, local_ip |-> q.local_ip, remote_ip |-> q.remote_ip,
                   interface_name |-> interface_name, bridge_name |-> q.bridge_name,
                   mtu |-> q.mtu, encryption |-> q.encryption]
        raised == construct(CreateKeywords, q)
    IN  IF ~RequestValid(q)
        THEN {Outcome(M.tunnels, M.order, M.persisted, M.links, "rejected",
                      "ValidationError", Response(422, ""), <<>>)}
        ELSE UNION {
               IF d.exc # "none"
               THEN {[d EXCEPT !.ret = Response(StatusOf(d.exc, 404), "")]}
               ELSE IF raised # "none"
               THEN {[d EXCEPT !.event = "update_failed", !.exc = raised,
                               !.ret = Response(StatusOf(raised, 404), "")]}
               ELSE {[o EXCEPT !.ret = Response(StatusOf(o.exc, 404), o.ret),
                               !.trace = d.trace \o o.trace]
                     : o \in create_tunnel(After(d), tunnel, tunnel_id)}
               : d \in delete_tunnel_of(M, tunnel_id) }

PutTunnel ==
    \E tunnel_id \in TunnelIds, q \in Requests :
        \E o \in put_tunnel(Mgr, tunnel_id, q) : Ends(o, "put_tunnel", tunnel_id, q)

\* one entry of the results of a bulk operation; the response itself is
\* always 200
BulkResult(success, tunnel_id) ==
    [status |-> 200, tunnel_id |-> tunnel_id, success |-> success]

\* the tunnel_data of a bulk update: the fields of a valid tunnel, or a VNI
\* below the range
BulkData ==
    VxLANTunnel \cup {Tunnel(MinVni - 1, "10.0.0.1", "10.0.0.2", CustomIf, "br-lan",
                             DefaultMtu)}

\* the 'update' branch of bulk_operations, api_advanced.py:56-64, for one
\* entry: delete_tunnel, VxLANTunnel(**tunnel_data), create_tunnel under
\* the same id; any exception becomes an unsuccessful result
bulk_update(M, tunnel_id, data) ==
    LET raised == post_init(data.vni, data.local_ip, data.remote_ip, data.mtu)
    IN  UNION {
          IF d.exc # "none" THEN {[d EXCEPT !.ret = BulkResult(FALSE, "")]}
          ELSE IF raised # "none"
          THEN {[d EXCEPT !.event = "update_failed", !.exc = raised,
                          !.ret = BulkResult(FALSE, "")]}
          ELSE {[o EXCEPT !.ret = BulkResult(o.exc = "none", o.ret),
                          !.trace = d.trace \o o.trace]
                : o \in create_tunnel(After(d), data, tunnel_id)}
          : d \in delete_tunnel_of(M, tunnel_id) }

BulkUpdate ==
    \E tunnel_id \in TunnelIds, data \in BulkData :
        \E o \in bulk_update(Mgr, tunnel_id, data) :
            Ends(o, "bulk_update", tunnel_id, data)

ApiNext ==
    \/ Step(PostTunnels)
    \/ Step(DeleteTunnelRoute)

\* create_app builds its manager on the configuration file (api.py:151)
ApiSpec == Init /\ [][ApiNext]_vars

\* the update routes alone: one update, then a PUT on the store it left
UpdateNext ==
    \/ Once(PutTunnel)
    \/ Once(BulkUpdate)
    \/ Again(PutTunnel)

UpdateSpec == Init /\ [][UpdateNext]_vars

(* ======================= properties of the manager ====================== *)
\* the backend commands among the events of a call
BackendCmds(tr) == SelectSeq(tr, LAMBDA e : e.cmd \in IpCmds)

\* the (vni, local_ip, remote_ip) identity, spelled out
SameTriple(a, b) ==
    a.vni = b.vni /\ a.local_ip = b.local_ip /\ a.remote_ip = b.remote_ip

StoreAndBackendUnchanged ==
    /\ tunnels' = tunnels
    /\ order' = order
    /\ persisted' = persisted
    /\ links' = links

\* C1: a create_tunnel under an id that is stored with the same
\* (vni, local_ip, remote_ip) returns that id, issues no backend command and
\* leaves the store (memory and file) and the backend unchanged.
C1_IdempotentCreate ==
    [][ (/\ last'.op = "create"
         /\ last'.id \in DOMAIN tunnels
         /\ SameTriple(tunnels[last'.id], last'.tunnel))
        => (/\ last'.exc = "none"
            /\ last'.ret = last'.id
            /\ BackendCmds(last'.trace) = <<>>
            /\ StoreAndBackendUnchanged) ]_vars

\* a repeated create whose spec names another interface than the stored one
C1_Witness ==
    /\ last.op = "create"
    /\ last.event = "already_exists"
    /\ last.id \in DOMAIN tunnels
    /\ SameTriple(tunnels[last.id], last.tunnel)
    /\ tunnels[last.id].interface_name # last.tunnel.interface_name
    /\ last.ret = last.id

\* C2 (as claimed): a create_tunnel that fails for an id that was not stored
\* leaves the id out of the in-memory map and out of the file.
C2_FailedCreateLeavesNoRecord ==
    [][ (/\ last'.op = "create"
         /\ last'.exc # "none"
         /\ last'.id \notin DOMAIN tunnels
         /\ last'.id \notin DOMAIN persisted)
        => (/\ last'.id \notin DOMAIN tunnels'
            /\ last'.id \notin DOMAIN persisted') ]_vars

\* the devices a call created: its successful add commands
CreatedBy(tr) ==
    { tr[i].dev : i \in { j \in 1..Len(tr) :
                            /\ tr[j].cmd \in {"link_add_vxlan", "link_add_bridge"}
                            /\ tr[j].out = "ok" } }

\* the first event of a call that raised: a timeout, a refused command that
\* was run with check=True (all commands of the create sequence but the
\* bridge query), or a failed save
Raises(e) ==
    \/ e.out = "timeout"
    \/ e.out = "fail" /\ e.cmd # "link_show"

FirstFailure(tr) ==
    LET F == { i \in 1..Len(tr) : Raises(tr[i]) }
    IN  IF F = {} THEN 0 ELSE CHOOSE i \in F : \A j \in F : i <= j

ExcOf(e) ==
    IF e.cmd = "save" THEN "IOError"
    ELSE IF e.out = "timeout" THEN "TimeoutExpired" ELSE "CalledProcessError"

\* C3 (as claimed): when create_tunnel fails and its teardown runs without
\* error, every device the attempt created (the interface, and the bridge
\* when the attempt created it) is gone, and the error raised is the one of
\* the failing step.
C3_FailedCreateTornDown ==
    [][ (/\ last'.op = "create"
         /\ last'.event = "create_failed"
         /\ LastOut(last') = "ok")
        => (/\ \A dev \in CreatedBy(last'.trace) : dev \notin DOMAIN links'
            /\ FirstFailure(last'.trace) # 0
            /\ last'.exc = ExcOf(last'.trace[FirstFailure(last'.trace)])) ]_vars

\* C4 (as claimed): a failed create_tunnel removes no device that existed
\* before the attempt.
C4_TeardownLimitedToAttempt ==
    [][ (last'.op = "create" /\ last'.event = "create_failed")
        => \A dev \in DOMAIN links : dev \in DOMAIN links' ]_vars

\* the create sequence for tunnel t under id, given what the bridge query
\* reports
CreateSequence(t, id, bridgePresent) ==
    <<<<"link_add_vxlan", t.interface_name>>, <<"link_set_up", t.interface_name>>,
      <<"link_show", t.bridge_name>>>>
    \o (IF bridgePresent THEN <<>>
        ELSE <<<<"link_add_bridge", t.bridge_name>>, <<"link_set_up", t.bridge_name>>>>)
    \o <<<<"link_set_master", t.interface_name>>, <<"link_set_mtu", t.interface_name>>>>
    \o (IF t.encryption # "none" THEN <<<<"encryption", t.interface_name>>>> ELSE <<>>)
    \o <<<<"save", id>>>>

Steps(tr) == [i \in 1..Len(tr) |-> <<tr[i].cmd, tr[i].dev>>]

IsPrefix(a, b) == Len(a) <= Len(b) /\ \A i \in 1..Len(a) : a[i] = b[i]

\* the steps of a create_tunnel call: all events of a success, all events but
\* the trailing cleanup of a failure
Forward(c) ==
    IF c.event = "create_failed" THEN SubSeq(c.trace, 1, Len(c.trace) - 1) ELSE c.trace

\* C5: the steps of a create_tunnel run in the order interface, link up,
\* bridge query, bridge (only when reported absent), attach, MTU, encryption
\* stub, save; a success ran them all, and a failure stopped at the step that
\* failed: no step follows it, only the cleanup's delete of the interface.
C5_StrictStepOrder ==
    (last.op = "create" /\ last.event \in {"tunnel_create", "create_failed"})
    => LET fw == Forward(last)
           n == Len(fw)
           bridgePresent == n >= 3 /\ fw[3].out = "ok"
           full == CreateSequence(last.tunnel, last.id, bridgePresent)
       IN  /\ n >= 1
           /\ IsPrefix(Steps(fw), full)
           /\ \A i \in 1..(n - 1) : ~Raises(fw[i])
           /\ IF last.event = "tunnel_create"
              THEN Steps(fw) = full /\ ~Raises(fw[n])
              ELSE /\ Raises(fw[n])
                   /\ Steps(last.trace) =
                        Append(Steps(fw), <<"link_delete", last.tunnel.interface_name>>)

\* a create that failed at the attach step, after this attempt created the
\* bridge: the MTU, the encryption stub and the save did not run
C5_Witness ==
    /\ last.op = "create"
    /\ last.event = "create_failed"
    /\ Len(last.trace) = 7
    /\ last.trace[6].cmd = "link_set_master"
    /\ last.trace[6].out # "ok"
    /\ last.tunnel.encryption # "none"

\* C6: a create_tunnel under an id that is stored with a different
\* (vni, local_ip, remote_ip) raises the conflict error, issues no backend
\* command and leaves the store and the backend unchanged.
C6_ConflictingCreate ==
    [][ (/\ last'.op = "create"
         /\ last'.id \in DOMAIN tunnels
         /\ ~SameTriple(tunnels[last'.id], last'.tunnel))
        => (/\ last'.exc = "ValueError"
            /\ last'.event = "conflict"
            /\ BackendCmds(last'.trace) = <<>>
            /\ StoreAndBackendUnchanged) ]_vars

C6_Witness ==
    /\ last.op = "create"
    /\ last.event = "conflict"
    /\ last.id \in DOMAIN tunnels
    /\ tunnels[last.id].remote_ip # last.tunnel.remote_ip
    /\ tunnels[last.id].interface_name \in DOMAIN links

\* C7 (as claimed): delete_tunnel of a stored id removes the record, whatever
\* the detach and destroy commands do.
C7_DeleteAlwaysRemoves ==
    [][ (last'.op = "delete" /\ last'.id \in DOMAIN tunnels)
        => last'.id \notin DOMAIN tunnels' ]_vars

\* C8: delete_tunnel of an id that is not stored raises the not-found error,
\* issues no backend command and leaves the store and the backend unchanged.
C8_DeleteUnknown ==
    [][ (last'.op = "delete" /\ last'.id \notin DOMAIN tunnels)
        => (/\ last'.exc = "ValueError"
            /\ last'.event = "not_found"
            /\ BackendCmds(last'.trace) = <<>>
            /\ StoreAndBackendUnchanged) ]_vars

\* a delete of an id that is not in the map while another record is, and
\* while the file still holds a record under the id
C8_Witness ==
    /\ last.op = "delete"
    /\ last.event = "not_found"
    /\ last.id \notin DOMAIN tunnels
    /\ tunnels # EmptyMap
    /\ last.id \in DOMAIN persisted

\* the ids recover_state visited, in the order of the visits
Visited(tr) ==
    LET v == SelectSeq(tr, LAMBDA e : e.cmd = "visit")
    IN  [i \in 1..Len(v) |-> v[i].dev]

\* the events of the visit of the k-th record
VisitEvents(tr, k) ==
    LET at == { i \in 1..Len(tr) : tr[i].cmd = "visit" }
        start == CHOOSE i \in at : Cardinality({ j \in at : j <= i }) = k
        later == { i \in at : i > start }
        stop == IF later = {} THEN Len(tr) + 1
                ELSE CHOOSE i \in later : \A j \in later : i <= j
    IN  SubSeq(tr, start, stop - 1)

\* C9: recover_state never raises; it visits every stored record, in the
\* store's order, whatever happened to the records before it, and issues the
\* interface creation for every record whose interface is reported absent.
C9_RecoverVisitsAll ==
    (last.op = "recover")
    => /\ last.exc = "none"
       /\ Visited(last.trace) = order
       /\ \A k \in 1..Len(order) :
            LET ev == VisitEvents(last.trace, k)
                t == tunnels[order[k]]
            IN  /\ Len(ev) >= 2
                /\ ev[2].cmd = "link_show" /\ ev[2].dev = t.interface_name
                /\ ev[2].out = "fail"
                   => /\ Len(ev) >= 4
                      /\ ev[4].cmd = "link_add_vxlan" /\ ev[4].dev = t.interface_name

\* a pass in which the first record's re-creation failed and the second
\* record was re-created all the same
C9_Witness ==
    /\ last.op = "recover"
    /\ Len(order) = 2
    /\ \E i \in 1..Len(last.trace) :
         /\ last.trace[i].cmd = "recover_failed"
         /\ last.trace[i].dev = order[1]
    /\ tunnels[order[2]].interface_name \in DOMAIN links
    /\ links[tunnels[order[2]].interface_name].mtu = DefaultMtu
    /\ tunnels[order[1]].interface_name # tunnels[order[2]].interface_name

\* the text of a (recovered, failed) count pair
CountPair(recovered, failed) ==
    "(" \o ToString(recovered) \o ", " \o ToString(failed) \o ")"

\* the records a pass found absent, and those whose visit logged a failure
AbsentVisits(tr) ==
    { i \in 1..Len(tr) : i > 1 /\ tr[i].cmd = "link_show" /\ tr[i].out = "fail"
                         /\ tr[i - 1].cmd = "visit" }
FailedVisits(tr) == { i \in 1..Len(tr) : tr[i].cmd = "recover_failed" }

\* C10 (as claimed): recover_state returns the pair (recovered, failed): with
\* M records found absent, (M, 0) when no re-creation fails and (M-1, 1) when
\* exactly one does.
C10_RecoverReturnsCounts ==
    (last.op = "recover" /\ Cardinality(FailedVisits(last.trace)) <= 1)
    => LET M == Cardinality(AbsentVisits(last.trace))
           F == Cardinality(FailedVisits(last.trace))
       IN  F <= M => last.ret = CountPair(M - F, F)

\* C11: a recovery pass leaves the store (memory and file) exactly as it
\* was, and for a record whose interface the backend reports present it
\* issues the query and nothing else: no state-changing command and no
\* save.
C11_RecoverFrame ==
    [][last'.op = "recover" =>
         /\ tunnels' = tunnels /\ order' = order /\ persisted' = persisted
         /\ \A i \in 1..Len(last'.trace) : last'.trace[i].cmd # "save"
         /\ \A k \in 1..Len(Visited(last'.trace)) :
              LET ev == VisitEvents(last'.trace, k) IN
              (Len(ev) >= 2 /\ ev[2].out = "ok") =>
                  /\ Len(ev) = 2
                  /\ ev[2].cmd = "link_show"]_vars

\* one pass over two records that skips the first, reported present, and
\* rebuilds the second, reported absent
C11_Witness ==
    /\ last.op = "recover"
    /\ Len(Visited(last.trace)) = 2
    /\ Len(VisitEvents(last.trace, 1)) = 2
    /\ VisitEvents(last.trace, 1)[2].out = "ok"
    /\ Len(VisitEvents(last.trace, 2)) > 3
    /\ VisitEvents(last.trace, 2)[2].out = "fail"
    /\ \E i \in 1..Len(last.trace) : last.trace[i].cmd \in ChangingCmds

\* C12: list_tunnels returns exactly the stored ids; it queries the backend
\* once per record in that very call and reports what the query answered
\* (up, unknown or down for a link that exists now, in its present
\* administrative state; not_found when the query found nothing; error when
\* the query could not be made); it changes neither the store nor the
\* backend.
C12_ListFresh ==
    [][last'.op = "list" =>
         /\ StoreAndBackendUnchanged
         /\ last'.exc = "none"
         /\ DOMAIN last'.ret = DOMAIN tunnels
         /\ Len(last'.trace) = Len(order)
         /\ \A k \in 1..Len(order) :
              LET id == order[k]
                  dev == tunnels[id].interface_name
                  q == last'.trace[k]
                  st == last'.ret[id].status
              IN  /\ q.cmd = "link_show" /\ q.dev = dev
                  /\ last'.ret[id].tunnel = tunnels[id]
                  /\ q.out = "ok" =>
                        /\ dev \in DOMAIN links
                        /\ st \in (IF links[dev].up THEN {"up", "unknown"} ELSE {"down"})
                  /\ q.out = "fail" => st = "not_found"
                  /\ q.out = "timeout" => st = "error"
                  /\ dev \notin DOMAIN links => st \in {"not_found", "error"}]_vars

\* after an operation that changed the backend, a listing of two records
\* reports one interface up and the other not found
C12_Witness ==
    /\ last.op = "list"
    /\ nops = MaxOps
    /\ \E a, b \in DOMAIN last.ret :
         /\ last.ret[a].status = "up"
         /\ last.ret[b].status = "not_found"
         /\ tunnels[b].interface_name \notin DOMAIN links

(* =================== properties of construction and planning ============ *)
\* C13: constructing a tunnel succeeds for every VNI in [4096, 16777215]
\* with an MTU in [1280, 9000] and two valid addresses, and raises a
\* validation error whenever the VNI or the MTU is outside its range.
C13_ConstructionValidates ==
    last.op = "construct" =>
        LET t == last.tunnel IN
        /\ (validate_vni(t.vni) /\ validate_mtu(t.mtu)
             /\ validate_ip(t.local_ip) /\ validate_ip(t.remote_ip))
               => last.exc = "none"
        /\ (~validate_vni(t.vni) \/ ~validate_mtu(t.mtu)) => last.exc = "ValueError"

\* the position of a name in the inventory
Pos(nodes, name) == CHOOSE i \in 1..Len(nodes) : nodes[i].name = name

\* every node of the inventory has a wan_ip
Addressed(nodes) == \A i \in 1..Len(nodes) : nodes[i].wan_ip # NoIp

\* the ids of a plan are pairwise distinct
DistinctIds(plan) ==
    \A i, j \in 1..Len(plan) : i # j => plan[i].tunnel_id # plan[j].tunnel_id

\* the k-th entry carries the VNI base + (k - 1)
VnisInOrder(plan, base) == \A k \in 1..Len(plan) : plan[k].vni = base + (k - 1)

\* C14: planning a full mesh over n nodes (each with an address) gives
\* exactly n(n-1)/2 tunnels, one for every unordered pair of nodes, listed
\* in combination order (by the position of the first node, then of the
\* second), the k-th listed tunnel carrying VNI base_vni + (k - 1).
C14_FullMeshPlan ==
    (last.op = "plan" /\ last.id = "full-mesh" /\ Addressed(last.tunnel.nodes)) =>
        LET nodes == last.tunnel.nodes
            n == Len(nodes)
            plan == last.ret
        IN  /\ last.exc = "none"
            /\ Len(plan) = (n * (n - 1)) \div 2
            /\ DistinctIds(plan)
            /\ VnisInOrder(plan, BaseVni(last.tunnel))
            /\ \A i, j \in 1..n : i < j =>
                 \E k \in 1..Len(plan) :
                    plan[k].node1 = nodes[i].name /\ plan[k].node2 = nodes[j].name
            /\ \A k \in 1..Len(plan) :
                 /\ Pos(nodes, plan[k].node1) < Pos(nodes, plan[k].node2)
                 /\ plan[k].local_ip = nodes[Pos(nodes, plan[k].node1)].wan_ip
                 /\ plan[k].remote_ip = nodes[Pos(nodes, plan[k].node2)].wan_ip
            /\ \A k, l \in 1..Len(plan) : k < l =>
                 \/ Pos(nodes, plan[k].node1) < Pos(nodes, plan[l].node1)
                 \/ /\ plan[k].node1 = plan[l].node1
                    /\ Pos(nodes, plan[k].node2) < Pos(nodes, plan[l].node2)

\* a full mesh planned over three nodes: three tunnels
C14_Witness ==
    /\ last.op = "plan" /\ last.id = "full-mesh" /\ last.exc = "none"
    /\ Len(last.tunnel.nodes) = 3
    /\ Len(last.ret) = 3
    /\ last.ret[3].vni = MinVni + 2

\* C15: planning a hub-spoke topology over n nodes (each with an address)
\* whose hub is one of them gives exactly n-1 tunnels, one per non-hub node
\* in inventory order, each with the hub's address as local and the
\* spoke's as remote, the k-th carrying VNI base_vni + (k - 1).
C15_HubSpokePlan ==
    (/\ last.op = "plan" /\ last.id = "hub-spoke"
     /\ last.tunnel.hub \in NameSet(last.tunnel.nodes)
     /\ Addressed(last.tunnel.nodes)) =>
        LET nodes == last.tunnel.nodes
            hub == last.tunnel.hub
            plan == last.ret
            spokes == SelectSeq(nodes, LAMBDA x : x.name # hub)
        IN  /\ last.exc = "none"
            /\ Len(plan) = Len(nodes) - 1
            /\ Len(plan) = Len(spokes)
            /\ DistinctIds(plan)
            /\ VnisInOrder(plan, BaseVni(last.tunnel))
            /\ \A k \in 1..Len(plan) :
                 /\ plan[k].node1 = hub
                 /\ plan[k].node2 = spokes[k].name
                 /\ plan[k].local_ip = nodes[Pos(nodes, hub)].wan_ip
                 /\ plan[k].remote_ip = spokes[k].wan_ip

\* a hub-spoke plan over three nodes whose hub is not the first of them
C15_Witness ==
    /\ last.op = "plan" /\ last.id = "hub-spoke" /\ last.exc = "none"
    /\ Len(last.tunnel.nodes) = 3
    /\ last.tunnel.nodes[1].name # last.tunnel.hub
    /\ Len(last.ret) = 2
    /\ last.ret[1].remote_ip = last.tunnel.nodes[1].wan_ip

\* C16: planning a partial mesh raises a configuration error whenever a
\* connection names a node outside the inventory or connects a node to
\* itself; no plan with such a connection is returned.
C16_PartialMeshRejects ==
    (/\ last.op = "plan" /\ last.id = "partial-mesh"
     /\ \E k \in 1..Len(last.tunnel.connections) :
          LET c == last.tunnel.connections[k] IN
          \/ c.node1 \notin NameSet(last.tunnel.nodes)
          \/ c.node2 \notin NameSet(last.tunnel.nodes)
          \/ c.node1 = c.node2) =>
        /\ last.exc = "ValueError"
        /\ last.ret = <<>>

\* C17: a partial-mesh plan that is returned holds one tunnel per entry of
\* the connection list, in list order and duplicates included, the k-th
\* carrying VNI base_vni + (k - 1); the ids are pairwise distinct.
C17_PartialMeshPlan ==
    (last.op = "plan" /\ last.id = "partial-mesh" /\ last.exc = "none") =>
        LET conns == last.tunnel.connections
            nodes == last.tunnel.nodes
            plan == last.ret
        IN  /\ Len(plan) = Len(conns)
            /\ DistinctIds(plan)
            /\ VnisInOrder(plan, BaseVni(last.tunnel))
            /\ \A k \in 1..Len(plan) :
                 /\ plan[k].node1 = conns[k].node1
                 /\ plan[k].node2 = conns[k].node2
                 /\ plan[k].local_ip = nodes[Pos(nodes, conns[k].node1)].wan_ip
                 /\ plan[k].remote_ip = nodes[Pos(nodes, conns[k].node2)].wan_ip

\* a plan for a list that names the same pair twice: two tunnels
C17_Witness ==
    /\ last.op = "plan" /\ last.id = "partial-mesh" /\ last.exc = "none"
    /\ Len(last.tunnel.connections) = 2
    /\ last.tunnel.connections[1] = last.tunnel.connections[2]
    /\ Len(last.ret) = 2

\* C18: planning or creating a hub-spoke topology whose configuration names
\* no hub, or a hub that is not in the inventory, raises a configuration
\* error; nothing is planned, no tunnel is created, no backend command is
\* issued and the store is left as it was.
C18_HubRequired ==
    [][(/\ last'.op \in {"plan", "create_topology"}
        /\ last'.id = "hub-spoke"
        /\ \/ last'.tunnel.hub = NoHub
           \/ \A i \in 1..Len(last'.tunnel.nodes) :
                 last'.tunnel.nodes[i].name # last'.tunnel.hub) =>
           /\ last'.exc = "ValueError"
           /\ last'.ret = <<>>
           /\ last'.trace = <<>>
           /\ StoreAndBackendUnchanged]_vars

\* a creation over two nodes whose hub is neither of them has raised
C18_Witness ==
    /\ last.op = "create_topology" /\ last.id = "hub-spoke"
    /\ last.tunnel.hub # NoHub
    /\ Len(last.tunnel.nodes) = 2
    /\ last.tunnel.hub \notin NameSet(last.tunnel.nodes)
    /\ last.exc = "ValueError"

\* the structural violations of a configuration, each as the error line
\* that reports it
Violations(topology_type, config) ==
    LET nodes == config.nodes
        conns == config.connections
    IN  (IF nodes = <<>> THEN {Err("nodes_required", "")} ELSE {})
        \cup { Err("missing_wan_ip", nodes[i].name) :
                 i \in { k \in 1..Len(nodes) : nodes[k].wan_ip = NoIp } }
        \cup { Err("invalid_wan_ip", nodes[i].name) :
                 i \in { k \in 1..Len(nodes) :
                           nodes[k].wan_ip # NoIp /\ ~validate_ip(nodes[k].wan_ip) } }
        \cup (IF topology_type = "hub-spoke" /\ config.hub = NoHub
              THEN {Err("hub_required", "")} ELSE {})
        \cup (IF topology_type = "partial-mesh" /\ conns = <<>>
              THEN {Err("connections_required", "")} ELSE {})
        \cup (IF topology_type = "partial-mesh"
              THEN { Err("self_connection", ToString(i - 1)) :
                       i \in { k \in 1..Len(conns) : conns[k].node1 = conns[k].node2 } }
              ELSE {})
        \cup (IF BaseVni(config) < MinVni \/ BaseVni(config) > MaxVni
              THEN {Err("invalid_base_vni", ToString(BaseVni(config)))} ELSE {})

\* C19: validate_topology_config reports every structural violation of the
\* configuration: an empty inventory, a node without or with an invalid
\* wan_ip, a missing hub, a missing connection list, a self-connection, an
\* out-of-range base_vni each have their line in the returned error list,
\* however many of them the configuration holds.
C19_ValidateReportsAll ==
    last.op = "validate" =>
        \A v \in Violations(last.id, last.tunnel) :
            \E i \in 1..Len(last.ret.errors) : last.ret.errors[i] = v

\* C20: plan_topology and validate_topology_config are pure: a planning or
\* validation call issues no backend command and leaves the tunnel store,
\* the configuration file and the backend exactly as they were.
C20_PlanningIsPure ==
    [][last'.op \in {"plan", "validate"} =>
           /\ last'.trace = <<>>
           /\ StoreAndBackendUnchanged]_vars

\* a two-tunnel plan drawn up by a manager that holds a tunnel
C20_Witness ==
    /\ last.op = "plan" /\ last.exc = "none"
    /\ Len(last.ret) = 2
    /\ DOMAIN tunnels # {}
    /\ DOMAIN links # {}

\* C21: a create_topology call that ends in a validation or configuration
\* error (ValueError for an unknown node, a missing hub, an out-of-range
\* VNI or an invalid address; KeyError for a node without address) has
\* created no tunnel, issued no backend command and left the store, the
\* file and the backend as they were.
C21_ConfigErrorsBeforeEffects ==
    [][(last'.op = "create_topology" /\ last'.exc \in {"ValueError", "KeyError"}) =>
           /\ last'.trace = <<>>
           /\ StoreAndBackendUnchanged]_vars

\* the interfaces a creation call tried to add, and the records it saved
AddedBy(tr) == SelectSeq(tr, LAMBDA e : e.cmd = "link_add_vxlan")
SavedBy(tr) == SelectSeq(tr, LAMBDA e : e.cmd = "save" /\ e.out = "ok")

ShellSequence(t) ==
    <<<<"link_add_vxlan", t.interface_name>>, <<"link_set_up", t.interface_name>>,
      <<"link_add_bridge_or_true", t.bridge_name>>, <<"link_set_up", t.bridge_name>>,
      <<"link_set_master", t.interface_name>>, <<"link_set_mtu", t.interface_name>>>>

\* the call was made on a registered shell node
OnShellNode(c) ==
    /\ c.id \in DOMAIN registry
    /\ registry[c.id].connection_type = "ssh"

\* C23: create_tunnel_on_node on a shell node sends link create, link up,
\* bridge create-if-absent, bridge up, attach, set MTU in this order and
\* stops at the first failing one: the result list is a prefix of the
\* sequence, every entry but possibly the last is successful, the list is
\* complete unless its last entry failed, and exactly the listed commands
\* were sent.
C23_RemoteSequenceFailFast ==
    (last.op = "create_tunnel_on_node" /\ OnShellNode(last)) =>
        LET res == last.ret.results
            seq == ShellSequence(last.tunnel)
        IN  /\ last.exc = "none"
            /\ Len(res) >= 1 /\ Len(res) <= Len(seq)
            /\ \A k \in 1..Len(res) :
                 /\ res[k].cmd = seq[k][1] /\ res[k].dev = seq[k][2]
                 /\ k < Len(res) => res[k].success
            /\ Len(res) < Len(seq) => ~res[Len(res)].success
            /\ Len(last.trace) = Len(res)
            /\ \A k \in 1..Len(res) :
                 /\ last.trace[k].node = last.id
                 /\ last.trace[k].cmd = res[k].cmd

\* a sequence that stopped at its fourth command
C23_Witness ==
    /\ last.op = "create_tunnel_on_node" /\ OnShellNode(last)
    /\ Len(last.ret.results) = 4
    /\ ~last.ret.results[4].success
    /\ last.ret.results[3].success

\* C24: when the provisioning sequence of create_tunnel_on_node fails on a
\* shell node (a failing command or a timed-out remote call), the interface
\* this attempt created on the node is torn down again.
C24_RemoteTeardown ==
    [][(/\ last'.op = "create_tunnel_on_node" /\ OnShellNode(last')
        /\ last'.exc = "none"
        /\ \E k \in 1..Len(last'.ret.results) : ~last'.ret.results[k].success
        /\ last'.tunnel.interface_name \notin DOMAIN remote[last'.id]) =>
           last'.tunnel.interface_name \notin DOMAIN remote'[last'.id]]_vars

\* the remote calls of a deployment made on node n
CallsOn(tr, n) == SelectSeq(tr, LAMBDA c : c.node = n)

\* C25: deploy_topology('hub-spoke') with a designated hub attempts every
\* pair: for every non-hub node of node_configs the returned result has the
\* entry "<hub>-<node>", and a node that is registered has been called,
\* whatever happened for the other pairs.
C25_DeployAttemptsAllPairs ==
    (/\ last.op = "deploy_topology" /\ last.id = "hub-spoke"
     /\ \E i \in 1..Len(last.tunnel) : last.tunnel[i].role = "hub") =>
        \A i \in 1..Len(last.tunnel) :
            last.tunnel[i].role # "hub" =>
                /\ \E k \in 1..Len(last.ret) : last.ret[k].spoke_node = last.tunnel[i].node_id
                /\ last.tunnel[i].node_id \in DOMAIN registry =>
                      CallsOn(last.trace, last.tunnel[i].node_id) # <<>>

\* every node of the deployment is registered and every VNI is valid
Deployable(node_configs) ==
    \A i \in 1..Len(node_configs) :
        /\ node_configs[i].node_id \in DOMAIN registry
        /\ node_configs[i].role # "hub" => validate_vni(node_configs[i].vni)

\* C26: a transport failure during deploy_topology is not raised: a
\* deployment over registered nodes returns one entry per pair whatever
\* remote call failed, and every remote call that ended in a transport
\* error is an unsuccessful result in the entry of its pair, under the node
\* it was made on.
C26_TransportFailureCaptured ==
    (/\ last.op = "deploy_topology" /\ last.id = "hub-spoke"
     /\ \E i \in 1..Len(last.tunnel) : last.tunnel[i].role = "hub"
     /\ Deployable(last.tunnel)) =>
        /\ last.exc = "none"
        /\ Len(last.ret) = Len(SelectSeq(last.tunnel, LAMBDA c : c.role # "hub"))
        /\ \A i \in 1..Len(last.trace) :
             last.trace[i].out = "error" =>
                \E k \in 1..Len(last.ret) :
                    LET side == IF last.trace[i].node = last.ret[k].hub_node
                                THEN last.ret[k].hub ELSE last.ret[k].spoke
                    IN  /\ last.trace[i].node \in {last.ret[k].hub_node,
                                                    last.ret[k].spoke_node}
                        /\ \E j \in 1..Len(side) :
                             /\ side[j].cmd = last.trace[i].cmd
                             /\ side[j].dev = last.trace[i].dev
                             /\ ~side[j].success

\* a deployment of two pairs: a transport error on the first spoke, the
\* second pair provisioned in full on hub and spoke
C26_Witness ==
    /\ last.op = "deploy_topology" /\ last.exc = "none"
    /\ Len(last.ret) = 2
    /\ \E j \in 1..Len(last.ret[1].spoke) : ~last.ret[1].spoke[j].success
    /\ \E i \in 1..Len(last.trace) :
         last.trace[i].out = "error" /\ last.trace[i].node = last.ret[1].spoke_node
    /\ \A j \in 1..Len(last.ret[2].hub) : last.ret[2].hub[j].success
    /\ \A j \in 1..Len(last.ret[2].spoke) : last.ret[2].spoke[j].success

\* C27: deploy_topology('hub-spoke') on node_configs without a node of role
\* hub raises a configuration error before any remote call: no call is
\* made and no remote host changes.
C27_DeployNeedsHub ==
    [][(/\ last'.op = "deploy_topology" /\ last'.id = "hub-spoke"
        /\ \A i \in 1..Len(last'.tunnel) : last'.tunnel[i].role # "hub") =>
           /\ last'.exc = "ValueError"
           /\ last'.trace = <<>>
           /\ last'.ret = <<>>
           /\ remote' = remote]_vars

\* a deployment of two spokes without a hub has raised
C27_Witness ==
    /\ last.op = "deploy_topology" /\ last.id = "hub-spoke"
    /\ Len(last.tunnel) = 2
    /\ \A i \in 1..Len(last.tunnel) : last.tunnel[i].role # "hub"
    /\ last.exc = "ValueError"

\* C28: create_tunnel_on_node, delete_tunnel_on_node and get_node_status
\* raise a not-found error for a node id the registry does not hold; they
\* make no remote call and change neither the registry nor a remote host.
C28_UnknownNode ==
    [][(/\ last'.op \in {"create_tunnel_on_node", "delete_tunnel_on_node",
                          "get_node_status"}
        /\ last'.id \notin DOMAIN registry) =>
           /\ last'.exc = "ValueError"
           /\ last'.trace = <<>>
           /\ registry' = registry
           /\ remote' = remote]_vars

\* a status query for a node that is not registered, after an earlier call
C28_Witness ==
    /\ last.op = "get_node_status"
    /\ last.id \notin DOMAIN registry
    /\ last.exc = "ValueError"
    /\ nops = 2

(* ============ properties of two managers on one store file ============== *)
\* C29: create_tunnel and delete_tunnel calls against one store are
\* serialized, also through two managers on the same file: a successful
\* call changes the file at its own id only, so that every record another
\* call has created stays in the file and every record another call has
\* deleted stays out of it.
C29_StoreSerialized ==
    [][(last'.op \in {"create", "delete"} /\ last'.exc = "none") =>
          \A id \in (DOMAIN persisted \cup DOMAIN persisted') \ {last'.id} :
              /\ id \in DOMAIN persisted
              /\ id \in DOMAIN persisted'
              /\ persisted'[id] = persisted[id]]_vars

(* ======================= properties of the REST API ===================== *)
\* C30: a valid POST /api/v1/tunnels that no command or save fails, with
\* no record of another identity under the id, is answered 200 with the id
\* "vxlan"+vni and leaves the tunnel stored under that id; when the id was
\* already stored with the same identity, nothing is run and nothing
\* changes.
C30_ApiCreateContract ==
    [][(/\ last'.op = "post_tunnels"
        /\ RequestValid(last'.tunnel)
        /\ validate_ip(last'.tunnel.local_ip) /\ validate_ip(last'.tunnel.remote_ip)
        /\ last'.exc \notin {"CalledProcessError", "TimeoutExpired", "IOError"}
        /\ Known(tunnels, DefaultId(last'.tunnel.vni)) =>
              SameIdentity(tunnels[DefaultId(last'.tunnel.vni)], last'.tunnel)) =>
           /\ last'.ret.status = 200
           /\ last'.ret.tunnel_id = DefaultId(last'.tunnel.vni)
           /\ Known(tunnels', DefaultId(last'.tunnel.vni))
           /\ Known(tunnels, DefaultId(last'.tunnel.vni)) =>
                 /\ last'.trace = <<>>
                 /\ UNCHANGED <<tunnels, order, persisted, links>>]_vars

(* =============== properties of topology creation, continued ============= *)
\* what identifies a tunnel of a topology: id, VNI, endpoints, interface
TunnelKey(tunnel_id, t) ==
    [tunnel_id |-> tunnel_id, vni |-> t.vni, local_ip |-> t.local_ip,
     remote_ip |-> t.remote_ip, interface_name |-> t.interface_name]

\* the tunnels of a store, and the tunnels of a plan
StoredKeys(T) == { TunnelKey(id, T[id]) : id \in DOMAIN T }
PlannedKeys(plan) == { TunnelKey(plan[i].tunnel_id, plan[i]) : i \in 1..Len(plan) }

\* C31: create_topology refines plan_topology: started on an empty store,
\* with every backend call accepted, on a configuration plan_topology
\* returns a plan for, create_topology leaves in the store exactly the
\* planned tunnels (ids, VNIs, endpoints, interface names).
C31_CreateRefinesPlan ==
    [][(/\ last'.op = "create_topology"
        /\ tunnels = EmptyMap /\ persisted = EmptyMap
        /\ Accepted(last'.trace)
        /\ plan_topology(last'.id, last'.tunnel).exc = "none") =>
           /\ StoredKeys(tunnels') = PlannedKeys(plan_topology(last'.id, last'.tunnel).plan)
           /\ StoredKeys(persisted') = StoredKeys(tunnels')]_vars

\* C40: every VNI of a plan that plan_topology returns, also one counted
\* from the default base_vni, lies in [4096, 16777215], and create_topology
\* on a configuration that validate_topology_config accepts never raises
\* the validation error of a VNI out of range.
C40_AssignedVnisInRange ==
    /\ (last.op = "plan" /\ last.exc = "none") =>
          \A i \in 1..Len(last.ret) :
              MinVni <= last.ret[i].vni /\ last.ret[i].vni <= MaxVni
    /\ (last.op = "create_topology"
          /\ validate_topology_config(last.id, last.tunnel).ok) =>
          last.exc # "ValueError"

\* the interfaces of the tunnels a creation call saved
MadeBy(tr) == { "vxlan" \o ToString(tunnels[SavedBy(tr)[k].dev].vni) :
                  k \in { n \in 1..Len(SavedBy(tr)) : SavedBy(tr)[n].dev \in DOMAIN tunnels } }

\* C37: create_topology made again with the same type and configuration:
\* after a run that succeeded it runs no command, changes nothing and
\* returns the same tunnels; after a run on a valid configuration that a
\* backend failure ended at tunnel j, on a backend that now accepts every
\* command, it succeeds,
\* runs no command on the interfaces of tunnels 1..j-1, and leaves memory
\* and file holding every planned tunnel and nothing new beside them.
C37_RerunIsSafe ==
    [][(last'.op = "rerun_topology") =>
          LET plan == plan_topology(last'.id, last'.tunnel).plan IN
          /\ last.exc = "none" =>
                /\ last'.exc = "none"
                /\ last'.trace = <<>>
                /\ last'.ret = last.ret
                /\ UNCHANGED <<tunnels, order, persisted, links>>
          /\ (/\ last.exc \in {"CalledProcessError", "TimeoutExpired", "IOError"}
              /\ validate_topology_config(last'.id, last'.tunnel).ok
              /\ \A i \in 1..Len(plan) : validate_vni(plan[i].vni)) =>
                /\ last'.exc = "none"
                /\ \A i \in 1..Len(last'.trace) : last'.trace[i].dev \notin MadeBy(last.trace)
                /\ PlannedKeys(plan) \subseteq StoredKeys(tunnels')
                /\ PlannedKeys(plan) \subseteq StoredKeys(persisted')
                /\ StoredKeys(persisted') \ PlannedKeys(plan) \subseteq StoredKeys(persisted)
                /\ StoredKeys(tunnels') \ PlannedKeys(plan) \subseteq StoredKeys(tunnels)]_vars

(* ================= invariants of store, memory and backend ============== *)
\* C33: on a host that only the manager changes, every tunnel recorded in
\* the store, in memory or in the file, has its interface in the backend.
C33_StoreBackedByBackend ==
    /\ \A id \in DOMAIN persisted : persisted[id].interface_name \in DOMAIN links
    /\ \A id \in DOMAIN tunnels : tunnels[id].interface_name \in DOMAIN links

\* C34: started from an empty store, no two records of the store, in memory
\* or in the file, have the same interface_name.
C34_InterfacesDistinct ==
    /\ \A a, b \in DOMAIN persisted :
          a # b => persisted[a].interface_name # persisted[b].interface_name
    /\ \A a, b \in DOMAIN tunnels :
          a # b => tunnels[a].interface_name # tunnels[b].interface_name

\* C35: after every create_tunnel or delete_tunnel call the in-memory map
\* and the file hold the same tunnel ids, and a call that raises leaves
\* both as they were.
C35_MemoryMatchesFile ==
    [][(last'.op \in {"create", "delete"}) =>
          /\ DOMAIN tunnels' = DOMAIN persisted'
          /\ last'.exc # "none" => tunnels' = tunnels /\ persisted' = persisted]_vars

(* ======================= properties of reconciliation =================== *)
\* the tunnel is fully provisioned: interface present, up, attached to its
\* bridge, MTU set
Provisioned(L, t) ==
    /\ t.interface_name \in DOMAIN L
    /\ L[t.interface_name].up
    /\ L[t.interface_name].master = t.bridge_name
    /\ L[t.interface_name].mtu = t.mtu

\* a pass of recover_state in which the sequence of some record failed
FailedPass(c) ==
    /\ c.op = "recover"
    /\ \E i \in 1..Len(c.trace) : c.trace[i].cmd = "recover_failed"

\* C36: reconciliation converges: a recover_state pass on a backend that
\* accepts every command, made right after a pass that failed part-way
\* through a record's sequence, leaves every stored tunnel fully
\* provisioned.
C36_ReconcileConverges ==
    [][(FailedPass(last) /\ last'.op = "recover" /\ Accepted(last'.trace)) =>
          \A id \in DOMAIN tunnels' : Provisioned(links', tunnels'[id])]_vars

(* ================== properties of the REST API, continued =============== *)
\* C38: a tunnel update, by PUT /api/v1/tunnels/{id} or by the bulk
\* 'update' operation, is all-or-nothing: when it fails, the tunnel stored
\* under the id before is still stored, in memory and in the file, and its
\* interface, if it was in the backend, is still there.
C38_UpdateAllOrNothing ==
    [][(/\ last'.op \in {"put_tunnel", "bulk_update"}
        /\ IF last'.op = "put_tunnel" THEN last'.ret.status # 200
           ELSE ~last'.ret.success
        /\ Known(tunnels, last'.id) /\ Known(persisted, last'.id)) =>
           /\ Known(tunnels', last'.id) /\ tunnels'[last'.id] = tunnels[last'.id]
           /\ Known(persisted', last'.id)
           /\ tunnels[last'.id].interface_name \in DOMAIN links =>
                 tunnels[last'.id].interface_name \in DOMAIN links']_vars

(* ================ properties of an http node and its agent ============== *)
\* C39: on an http-agent node create and delete are inverse: when
\* create_tunnel_on_node stored a tunnel in the agent and the next call is
\* delete_tunnel_on_node with the tunnel's interface name, and the request
\* reaches the agent, the agent's store no longer holds the tunnel.
C39_AgentCreateDeleteInverse ==
    [][(/\ last.op = "create_on_agent" /\ last.ret.success
        /\ last'.op = "delete_on_agent"
        /\ last'.id = last.tunnel.interface_name
        /\ last'.ret.status_code # -1) =>
           ~\E id \in DOMAIN tunnels' : tunnels'[id] = last.tunnel]_vars

(* ================= properties of concurrent node calls ================== *)
\* the commands of coroutine k that reached a node, in the order they did
SentBy(k) ==
    LET mine == SelectSeq(last.trace, LAMBDA e : e.task = k)
    IN  [i \in 1..Len(mine) |-> [node |-> mine[i].node, cmd |-> mine[i].cmd,
                                 dev |-> mine[i].dev]]

\* the first n commands of create_tunnel_on_node(node_id, tunnel)
PlannedPrefix(t, n) ==
    [i \in 1..n |-> [node |-> t.node_id, cmd |-> CreateCommands(t.tunnel)[i].cmd,
                     dev |-> CreateCommands(t.tunnel)[i].dev]]

\* C32: however the create_tunnel_on_node coroutines for different (node,
\* tunnel) pairs interleave, the commands of each one reach its node in the
\* order of its sequence, none skipped, repeated or reordered: what a
\* coroutine has sent is always a prefix of its command list, one command
\* per result it holds.
C32_SequenceOrderKept ==
    \A k \in DOMAIN tasks :
        /\ Len(SentBy(k)) = Len(tasks[k].results)
        /\ Len(SentBy(k)) <= Len(CreateCommands(tasks[k].tunnel))
        /\ SentBy(k) = PlannedPrefix(tasks[k], Len(SentBy(k)))

\* two coroutines on the same node have both run to their last command,
\* and their commands alternated on the way
C32_Witness ==
    /\ DOMAIN tasks = TaskIds
    /\ tasks["a"].node_id = tasks["b"].node_id
    /\ \A k \in TaskIds : Len(tasks[k].results) = Len(CreateCommands(tasks[k].tunnel))
    /\ \E i \in 1..(Len(last.trace) - 2) :
          /\ last.trace[i].task # last.trace[i + 1].task
          /\ last.trace[i + 1].task # last.trace[i + 2].task

====
